---- MODULE Spec2Model ----
(***************************************************************************)
(* A model of the tourism video pipeline (tourism_agent_fixed):            *)
(*   - TrendDiscoveryAgent.analyze_and_rank_trends, the trend ranker, as   *)
(*     operators over character-level topics (specification SpecRank);     *)
(*   - run_full_pipeline with its three parallel batches and the platform  *)
(*     publishers with their retry loops (specification Spec).             *)
(***************************************************************************)
EXTENDS Integers, Sequences, FiniteSets, TLC

VARIABLES
    \* ---- trend ranker (agents/trend_agent.py) ----
    all_trends,     \* source name -> list of topic dicts, the ranker's argument
    ranked_items,   \* the local ranked_items of the last analyze_and_rank_trends call
    bonuses,        \* the local freq_bonus of each iteration of its second loop
    ranked,         \* the list the first call returned
    ranked2,        \* the list a second call on the same argument returned
    rank_pc,        \* "input", "ranked" after one call, "reranked" after two
    \* ---- run_full_pipeline (main.py) ----
    args,           \* override_topic, dry_run, platform_filter, language, preview
    pipe_pc,        \* where the coroutine stands
    started,        \* the steps started so far, in order
    finished,       \* the steps finished so far, in order
    n_queries,      \* len(search_queries) of the script in hand
    faults,         \* how many collaborators have failed in this run (capped)
    gathered,       \* batch -> members complete when the code after it began
    results,        \* platform -> URL / message id / None / "dry-run"
    \* ---- the three parallel batches ----
    trend_tasks,    \* source -> state of its executor future
    img_tasks,      \* index -> state of the image-search future
    pub_tasks,      \* platform -> state of its publish future
    await_idx,      \* position of the await loop of publish_to_all_platforms
    \* ---- module-level configuration (config.py) ----
    SCHEDULE_platforms,   \* config.SCHEDULE["platforms"]
    LOCATION_language,    \* config.LOCATION["language"]
    \* ---- main() and the content log (main.py, agents/analytics_agent.py) ----
    content_rows,   \* the rows of the content table, oldest first
    content_logged, \* what log_content did in this run: "no", "row", "failed"
    main_pc,        \* "pipeline", then "printed" or "cancelled"
    confirm,        \* the answer to "Publish now? [y/N]", stripped and lowered
    \* ---- deduplicate_files (utils/file_manager.py) ----
    dd_fs,          \* path -> content of the file, 0 when it cannot be read
    dd_paths,       \* the list handed to the first call
    dd_once,        \* deduplicate_files(dd_paths)
    dd_twice,       \* deduplicate_files(dd_once)
    dd_touched,     \* a file has changed between the two calls
    dd_pc,          \* "input", "once", "twice"
    \* ---- the scheduled-post queue (agents/publisher_agent.py) ----
    q_file,         \* logs/publish_queue.json: absent, damaged or a JSON object
    q_call,         \* the last call and its arguments
    q_ret,          \* what the last call returned, or that it raised
    q_calls,        \* number of calls made
    \* ---- the performance table (agents/analytics_agent.py) ----
    perf_rows,      \* the rows of the table
    perf_next_id,   \* the next AUTOINCREMENT id
    perf_now,       \* the clock, in half days
    perf_prev,      \* the rows before the last store_metrics call
    perf_call,      \* the last store_metrics call and what it returned
    perf_calls,     \* number of calls made
    \* ---- collect_all_images (agents/image_agent.py) ----
    im_fs,          \* path -> content of the downloaded file, 0 when unreadable
    im_needed,      \* total_needed
    im_futures,     \* how many search futures have ended
    im_all_paths,   \* all_paths, as the loop over the gathered results builds it
    im_deduped,     \* all_paths when the resize loop begins
    im_out,         \* the list returned
    im_pc,          \* "gather", then "returned" or "raised"
    \* ---- the connectors of one step and their credentials ----
    cn_step,        \* "trends", "images" or "publish"
    cn_creds,       \* the connectors whose credentials are all configured
    cn_done,        \* connector -> external calls made, value returned, raised
    cn_out,         \* what the step has in hand after its join
    cn_pc,          \* "calls", then "joined"
    \* ---- generate_video_script (agents/script_agent.py) ----
    sc_api,         \* what the Gemini call does: no client, an error, a text
    sc_topic,       \* trend_topic
    sc_style,       \* style
    sc_ret,         \* the script returned
    sc_pc,          \* "call", then "returned" or "raised"
    \* ---- scheduled mode and the job store (main.py, utils/scheduler.py) ----
    sd_main,        \* where run_scheduled stands, "idle" outside scheduled mode
    sd_running,     \* scheduler.running
    sd_loop,        \* the event loop of asyncio.run: "running" or "closed"
    sd_task,        \* the pipeline task: "none", "running", "done", "cancelled"
    sd_step,        \* the awaits the pipeline task has got past
    sd_fired,       \* how often the pipeline job has fired
    sd_interrupted, \* an interrupt has arrived
    sd_now,         \* the clock, in seconds
    sd_store,       \* the ids of the jobs in the job store
    sd_pending,     \* the ids added while the scheduler is not running
    sd_calls,       \* the schedule_analytics calls made: second and outcome
    \* ---- one publisher call and _wait_for_ig_processing (agents/publisher_agent.py) ----
    pb_platform,    \* the publisher called
    pb_thumb,       \* a thumbnail path is given and the file exists
    pb_creds,       \* the platform's credentials are configured
    pb_attempt,     \* attempt, the loop variable
    pb_request,     \* the position of the attempt in its requests
    pb_failed,      \* the attempts that have failed
    pb_waits,       \* the time.sleep calls made, in seconds
    pb_uploads,     \* how often the platform has accepted the video
    pb_ret,         \* what the call returns: "url" or "None"
    pb_pc,          \* "call", "attempt", "returned"
    ig_now,         \* time.time(), in seconds
    ig_deadline,    \* deadline
    ig_started,     \* the time at which the last poll started, if any
    ig_report,      \* what the last poll reported, "none" before it
    ig_pc,          \* "enter", "test", "poll", "sleep", or how the wait ended
    \* ---- the ElevenLabs usage file (agents/voice_agent.py) ----
    vo_file,        \* logs/elevenlabs_usage.txt: <<>> when absent, else <<n>>
    vo_client,      \* self._el_client is set
    vo_prev,        \* the usage file before the last call
    vo_last,        \* the last generate_voice call and what it did
    vo_calls,       \* number of calls made
    \* ---- search_pixabay_music (agents/music_agent.py) ----
    mu_key,         \* config.PIXABAY_API_KEY is set
    mu_args,        \* mood and genre of the outermost call
    mu_queries,     \* the search requests sent so far, by their q parameter
    mu_depth,       \* how many calls of search_pixabay_music are nested
    mu_ret,         \* what the outermost call returns
    mu_pc,          \* "call", "request", "returned"
    \* ---- step 4 of run_full_pipeline (main.py) ----
    ov_texts,       \* the script's transition_texts, when it has the key
    ov_unreadable,  \* the images add_text_overlay fails on
    ov_pairs,       \* what is left of zip(images, transition_texts)
    ov_out,         \* images_with_text
    ov_clips,       \* clips of the slideshow, -1 before step 8
    ov_pc           \* "step4", "loop", "step8"

rank_vars == <<all_trends, ranked_items, bonuses, ranked, ranked2, rank_pc>>

pipe_vars == <<args, pipe_pc, started, finished, n_queries, faults, gathered,
               results, trend_tasks, img_tasks, pub_tasks, await_idx,
               SCHEDULE_platforms, LOCATION_language>>

main_vars == <<content_rows, content_logged, main_pc, confirm>>

dedup_vars == <<dd_fs, dd_paths, dd_once, dd_twice, dd_touched, dd_pc>>

queue_vars == <<q_file, q_call, q_ret, q_calls>>

perf_vars == <<perf_rows, perf_next_id, perf_now, perf_prev, perf_call,
               perf_calls>>

image_vars == <<im_fs, im_needed, im_futures, im_all_paths, im_deduped,
                im_out, im_pc>>

conn_vars == <<cn_step, cn_creds, cn_done, cn_out, cn_pc>>

script_vars == <<sc_api, sc_topic, sc_style, sc_ret, sc_pc>>

sched_vars == <<sd_main, sd_running, sd_loop, sd_task, sd_step,
                sd_fired, sd_interrupted, sd_now, sd_store,
                sd_pending, sd_calls>>

pubcall_vars == <<pb_platform, pb_thumb, pb_creds, pb_attempt,
                  pb_request, pb_failed, pb_waits, pb_uploads, pb_ret,
                  pb_pc, ig_now, ig_deadline, ig_started, ig_report,
                  ig_pc>>

voice_vars == <<vo_file, vo_client, vo_prev, vo_last, vo_calls>>

music_vars == <<mu_key, mu_args, mu_queries, mu_depth, mu_ret, mu_pc>>

overlay_vars == <<ov_texts, ov_unreadable, ov_pairs, ov_out, ov_clips,
                  ov_pc>>

\* The variables of the functions modelled on their own.
ext_vars == <<dedup_vars, queue_vars, perf_vars, image_vars,
              conn_vars, script_vars, sched_vars, pubcall_vars,
              voice_vars, music_vars, overlay_vars>>

\* What the actions of each of these functions leave alone.
dedup_frame == <<rank_vars, pipe_vars, main_vars, queue_vars,
                 perf_vars, image_vars, conn_vars, script_vars,
                 sched_vars, pubcall_vars, voice_vars, music_vars,
                 overlay_vars>>
queue_frame == <<rank_vars, pipe_vars, main_vars, dedup_vars,
                 perf_vars, image_vars, conn_vars, script_vars,
                 sched_vars, pubcall_vars, voice_vars, music_vars,
                 overlay_vars>>
perf_frame == <<rank_vars, pipe_vars, main_vars, dedup_vars,
                queue_vars, image_vars, conn_vars, script_vars,
                sched_vars, pubcall_vars, voice_vars, music_vars,
                overlay_vars>>
image_frame == <<rank_vars, pipe_vars, main_vars, dedup_vars,
                 queue_vars, perf_vars, conn_vars, script_vars,
                 sched_vars, pubcall_vars, voice_vars, music_vars,
                 overlay_vars>>
script_frame == <<rank_vars, pipe_vars, main_vars, dedup_vars,
                  queue_vars, perf_vars, image_vars, conn_vars,
                  sched_vars, pubcall_vars, voice_vars, music_vars,
                  overlay_vars>>
conn_frame == <<rank_vars, pipe_vars, main_vars, dedup_vars,
                queue_vars, perf_vars, image_vars, script_vars,
                sched_vars, pubcall_vars, voice_vars, music_vars,
                overlay_vars>>
sched_frame == <<rank_vars, pipe_vars, main_vars, dedup_vars,
                 queue_vars, perf_vars, image_vars, conn_vars,
                 script_vars, pubcall_vars, voice_vars, music_vars,
                 overlay_vars>>
pubcall_frame == <<rank_vars, pipe_vars, main_vars, dedup_vars,
                   queue_vars, perf_vars, image_vars, conn_vars,
                   script_vars, sched_vars, voice_vars, music_vars,
                   overlay_vars>>
voice_frame == <<rank_vars, pipe_vars, main_vars, dedup_vars,
                 queue_vars, perf_vars, image_vars, conn_vars,
                 script_vars, sched_vars, pubcall_vars, music_vars,
                 overlay_vars>>
music_frame == <<rank_vars, pipe_vars, main_vars, dedup_vars,
                 queue_vars, perf_vars, image_vars, conn_vars,
                 script_vars, sched_vars, pubcall_vars, voice_vars,
                 overlay_vars>>
overlay_frame == <<rank_vars, pipe_vars, main_vars, dedup_vars,
                   queue_vars, perf_vars, image_vars, conn_vars,
                   script_vars, sched_vars, pubcall_vars, voice_vars,
                   music_vars>>

vars == <<rank_vars, pipe_vars, main_vars, ext_vars>>

(***************************************************************************)
(* Text.  A topic is a Python str, modelled as the sequence of its ASCII   *)
(* codes, so that lower(), slicing and split() are computed, not assumed.  *)
(***************************************************************************)

\* str.lower() on one ASCII character: 'A'..'Z' (65..90) map to 'a'..'z'.
LowerChar(c) == IF c \in 65..90 THEN c + 32 ELSE c

\* str.lower()
Lower(s) == [i \in 1..Len(s) |-> LowerChar(s[i])]

\* s[:n]
Prefix(s, n) == IF Len(s) <= n THEN s ELSE SubSeq(s, 1, n)

\* str.split(): the maximal runs of non-blank characters, in order.
Split(s) ==
    LET starts == {i \in 1..Len(s) : s[i] # 32 /\ (i = 1 \/ s[i - 1] = 32)}
        endOf(i) == CHOOSE j \in i..Len(s) :
                        /\ (j = Len(s) \/ s[j + 1] = 32)
                        /\ \A k \in i..j : s[k] # 32
        nth(k) == CHOOSE i \in starts :
                        Cardinality({j \in starts : j < i}) = k - 1
    IN  [k \in 1..Cardinality(starts) |-> SubSeq(s, nth(k), endOf(nth(k)))]

\* dict.get(k, default)
Get(d, k, default) == IF k \in DOMAIN d THEN d[k] ELSE default

RECURSIVE SumSeq(_)
SumSeq(s) == IF s = <<>> THEN 0 ELSE Head(s) + SumSeq(Tail(s))

RECURSIVE Concat(_)
Concat(ss) == IF ss = <<>> THEN <<>> ELSE Head(ss) \o Concat(Tail(ss))

(***************************************************************************)
(* Program constants of the ranker.                                        *)
(***************************************************************************)
KEY_LEN == 80          \* key = topic.lower()[:80]
MIN_WORD_LEN == 4      \* if len(word) > 4
DEFAULT_SCORE == 50    \* item.get("score", 50)
TOP_N == 3             \* if len(unique_ranked) >= 3: break
KEYWORD_N == 3         \* self.location["keywords"][:3]

\* "Tunis travel"
KW_TunisTravel ==
    <<84, 117, 110, 105, 115, 32, 116, 114, 97, 118, 101, 108>>
\* "Tunisia tourism"
KW_TunisiaTourism ==
    <<84, 117, 110, 105, 115, 105, 97, 32, 116, 111, 117, 114, 105, 115, 109>>
\* "visit Tunis"
KW_VisitTunis ==
    <<118, 105, 115, 105, 116, 32, 84, 117, 110, 105, 115>>
\* "things to do in Tunis"
KW_ThingsToDo ==
    <<116, 104, 105, 110, 103, 115, 32, 116, 111, 32, 100, 111, 32, 105, 110,
      32, 84, 117, 110, 105, 115>>
\* "Tunis hidden gems"
KW_HiddenGems ==
    <<84, 117, 110, 105, 115, 32, 104, 105, 100, 100, 101, 110, 32, 103, 101,
      109, 115>>

\* config.LOCATION["keywords"]
LOCATION_keywords ==
    <<KW_TunisTravel, KW_TunisiaTourism, KW_VisitTunis, KW_ThingsToDo,
      KW_HiddenGems>>

\* The insertion order of the all_trends dict built by discover_all_trends,
\* which is the order all_trends.values() is flattened in.
SourceOrder == <<"google", "reddit", "youtube", "news", "duckduckgo">>

(***************************************************************************)
(* analyze_and_rank_trends                                                 *)
(***************************************************************************)

\* flat: every source list, in dict order, extended into one list.
Flatten(trends) == Concat([i \in 1..Len(SourceOrder) |-> trends[SourceOrder[i]]])

\* key = topic.lower()[:80]
KeyOf(item) == Prefix(Lower(Get(item, "topic", <<>>)), KEY_LEN)

\* The words the first loop feeds to word_counter for one item:
\* for word in topic.lower().split(): if len(word) > 4
CountedWords(item) ==
    SelectSeq(Split(Lower(Get(item, "topic", <<>>))),
              LAMBDA w : Len(w) > MIN_WORD_LEN)

\* word_counter after the first loop, as the list of every counted word
\* occurrence over all candidates.
WordCounter(flat) == Concat([i \in 1..Len(flat) |-> CountedWords(flat[i])])

\* word_counter.get(w, 0)
CountOf(counter, w) == Len(SelectSeq(counter, LAMBDA x : x = w))

\* topic_scores after the first loop: topic_scores[keys[i]] for every i, where
\* keys[i] is the key of candidate i.
TopicScores(flat, keys) ==
    [i \in 1..Len(flat) |->
        SumSeq([j \in 1..Len(flat) |->
                  IF keys[j] = keys[i]
                  THEN Get(flat[j], "score", DEFAULT_SCORE)
                  ELSE 0])]

\* The words the second loop sums over: for w in key.split() if len(w) > 4
BonusWords(key) == SelectSeq(Split(key), LAMBDA w : Len(w) > MIN_WORD_LEN)

\* freq_bonus = sum(word_counter.get(w, 0) for w in key.split() if len(w) > 4)
FreqBonus(counter, key) ==
    LET ws == BonusWords(key)
    IN  SumSeq([j \in 1..Len(ws) |-> CountOf(counter, ws[j])])

\* The freq_bonus of each iteration of the second loop, in flat order.
Bonuses(flat) ==
    LET counter == WordCounter(flat)
    IN  [i \in 1..Len(flat) |-> FreqBonus(counter, KeyOf(flat[i]))]

\* The second loop: one ranked item per candidate, in flat order, with
\* final_score = base_score + freq_bonus.
RankedItems(flat) ==
    LET keys    == [i \in 1..Len(flat) |-> KeyOf(flat[i])]
        base    == TopicScores(flat, keys)
        counter == WordCounter(flat)
    IN  [i \in 1..Len(flat) |->
            [topic  |-> Get(flat[i], "topic", <<>>),
             score  |-> base[i] + FreqBonus(counter, keys[i]),
             source |-> Get(flat[i], "source", "unknown")]]

\* An unstable descending sort: equal scores come out in reverse input order.
SortedByScoreUnstable(items) ==
    LET n == Len(items)
        pos(i) == 1 + Cardinality({j \in 1..n :
                         \/ items[j].score > items[i].score
                         \/ items[j].score = items[i].score /\ j > i})
    IN  [p \in 1..n |-> items[CHOOSE i \in 1..n : pos(i) = p]]

\* An ascending sort, as sorted() does without reverse=True.
SortedByScoreAscending(items) ==
    LET n == Len(items)
        pos(i) == 1 + Cardinality({j \in 1..n :
                         \/ items[j].score < items[i].score
                         \/ items[j].score = items[i].score /\ j < i})
    IN  [p \in 1..n |-> items[CHOOSE i \in 1..n : pos(i) = p]]

\* sorted(ranked_items, key=lambda x: x["score"], reverse=True): a stable sort,
\* so items of equal score keep their input order.
SortedByScore(items) ==
    LET n == Len(items)
        pos(i) == 1 + Cardinality({j \in 1..n :
                         \/ items[j].score > items[i].score
                         \/ items[j].score = items[i].score /\ j < i})
    IN  [p \in 1..n |-> items[CHOOSE i \in 1..n : pos(i) = p]]

\* The deduplication loop without its break: every unique key is kept.
RECURSIVE DedupNoBreak(_, _, _, _)
DedupNoBreak(items, i, seen, unique) ==
    IF i > Len(items)
    THEN unique
    ELSE IF KeyOf(items[i]) \notin seen
         THEN DedupNoBreak(items, i + 1, seen \cup {KeyOf(items[i])},
                           Append(unique, items[i]))
         ELSE DedupNoBreak(items, i + 1, seen, unique)

\* The deduplication loop over the sorted items: keep an item whose key is new,
\* then stop as soon as TOP_N items are kept.
RECURSIVE DedupLoop(_, _, _, _)
DedupLoop(items, i, seen, unique) ==
    IF i > Len(items)
    THEN unique
    ELSE LET key  == KeyOf(items[i])
             seen2 == IF key \in seen THEN seen ELSE seen \cup {key}
             uniq2 == IF key \in seen THEN unique ELSE Append(unique, items[i])
         IN  IF Len(uniq2) >= TOP_N
             THEN uniq2
             ELSE DedupLoop(items, i + 1, seen2, uniq2)

\* A fallback that returns every configured keyword.
DefaultRankedAll ==
    [i \in 1..Len(LOCATION_keywords) |->
        [topic |-> LOCATION_keywords[i], score |-> DEFAULT_SCORE]]

\* [{"topic": kw, "score": 50} for kw in self.location["keywords"][:3]]
DefaultRanked ==
    LET kws == Prefix(LOCATION_keywords, KEYWORD_N)
    IN  [i \in 1..Len(kws) |-> [topic |-> kws[i], score |-> DEFAULT_SCORE]]

\* unique_ranked, for a non-empty flat list.
UniqueRanked(items) == DedupLoop(SortedByScore(items), 1, {}, <<>>)

\* The value analyze_and_rank_trends returns.
AnalyzeAndRank(trends) ==
    LET flat == Flatten(trends)
    IN  IF flat = <<>> THEN DefaultRanked ELSE UniqueRanked(RankedItems(flat))

(***************************************************************************)
(* Inputs of the ranker: what the five source connectors can hand over.    *)
(***************************************************************************)

\* "Tunis beaches"
T_TunisBeaches ==
    <<84, 117, 110, 105, 115, 32, 98, 101, 97, 99, 104, 101, 115>>
\* "Tunis beaches are amazing"
T_BeachesAmazing ==
    <<84, 117, 110, 105, 115, 32, 98, 101, 97, 99, 104, 101, 115, 32, 97, 114,
      101, 32, 97, 109, 97, 122, 105, 110, 103>>
\* "TUNIS BEACHES"
T_UpperBeaches ==
    <<84, 85, 78, 73, 83, 32, 66, 69, 65, 67, 72, 69, 83>>
\* "go to sea"
T_GoToSea ==
    <<103, 111, 32, 116, 111, 32, 115, 101, 97>>
\* "old port"
T_OldPort ==
    <<111, 108, 100, 32, 112, 111, 114, 116>>
\* "Tunisia tourism board reports record summer season for coastal resorts
\*  near Hammamet beaches" (92 characters; character 80 falls inside "Hammamet")
T_Long1 ==
    <<84, 117, 110, 105, 115, 105, 97, 32, 116, 111, 117, 114, 105, 115, 109,
      32, 98, 111, 97, 114, 100, 32, 114, 101, 112, 111, 114, 116, 115, 32,
      114, 101, 99, 111, 114, 100, 32, 115, 117, 109, 109, 101, 114, 32, 115,
      101, 97, 115, 111, 110, 32, 102, 111, 114, 32, 99, 111, 97, 115, 116,
      97, 108, 32, 114, 101, 115, 111, 114, 116, 115, 32, 110, 101, 97, 114,
      32, 72, 97, 109, 109, 97, 109, 101, 116, 32, 98, 101, 97, 99, 104, 101,
      115>>
\* The same headline ending in "harbour": equal to T_Long1 on its first 80
\* characters.
T_Long2 ==
    <<84, 117, 110, 105, 115, 105, 97, 32, 116, 111, 117, 114, 105, 115, 109,
      32, 98, 111, 97, 114, 100, 32, 114, 101, 112, 111, 114, 116, 115, 32,
      114, 101, 99, 111, 114, 100, 32, 115, 117, 109, 109, 101, 114, 32, 115,
      101, 97, 115, 111, 110, 32, 102, 111, 114, 32, 99, 111, 97, 115, 116,
      97, 108, 32, 114, 101, 115, 111, 114, 116, 115, 32, 110, 101, 97, 114,
      32, 72, 97, 109, 109, 97, 109, 101, 116, 32, 104, 97, 114, 98, 111, 117,
      114>>

Cand(t, sc, src) == [topic |-> t, score |-> sc, source |-> src]

\* The topic dicts each connector may return (its "source" tag and score are
\* the ones the connector writes); one reddit item carries no score field.
SourcePool(src) ==
    CASE src = "google" ->
           {Cand(T_TunisBeaches, 80, "google_trends"),
            Cand(KW_VisitTunis, 60, "google_trends")}
      [] src = "reddit" ->
           {Cand(T_BeachesAmazing, 60, "reddit/travel"),
            [topic |-> T_GoToSea, source |-> "reddit/travel"]}
      [] src = "youtube" ->
           {Cand(T_UpperBeaches, 70, "youtube"),
            Cand(T_OldPort, 70, "youtube")}
      [] src = "news" ->
           {Cand(T_Long1, 65, "newsapi"),
            Cand(T_Long2, 65, "newsapi")}
      [] src = "duckduckgo" ->
           {Cand(T_GoToSea, 55, "duckduckgo"),
            Cand(T_OldPort, 55, "duckduckgo")}

\* Bound: the total number of candidates over the five sources.
MaxCandidates == 4

SeqsUpTo(S, n) == UNION {[1..k -> S] : k \in 0..n}

\* Every assignment of lists to sources i..5 holding at most budget items.
RECURSIVE SourceLists(_, _)
SourceLists(i, budget) ==
    IF i > Len(SourceOrder)
    THEN {<<>>}
    ELSE UNION {{<<l>> \o rest : rest \in SourceLists(i + 1, budget - Len(l))} :
                  l \in SeqsUpTo(SourcePool(SourceOrder[i]), budget)}

RankInputs ==
    {[src \in {SourceOrder[i] : i \in 1..Len(SourceOrder)} |->
         ls[CHOOSE i \in 1..Len(SourceOrder) : SourceOrder[i] = src]] :
       ls \in SourceLists(1, MaxCandidates)}

\* A score field that is there but empty: {"score": None}.  Scores are
\* numbers everywhere else, so None is written as a number no score takes.
NoneScore == -1

\* Bound: the candidates of the inputs with empty and missing scores.
MaxScored == 3

\* Candidates with a score, with no score field and with an empty one; the
\* first three share their comparison key.
ScoredPool ==
    {Cand(T_TunisBeaches, 80, "google_trends"),
     Cand(T_UpperBeaches, 70, "youtube"),
     [topic |-> T_TunisBeaches, source |-> "reddit/travel"],
     Cand(T_BeachesAmazing, NoneScore, "reddit/travel"),
     Cand(T_GoToSea, 55, "duckduckgo")}

\* all_trends with these candidates in the reddit list.
ScoreInputs ==
    {[src \in {SourceOrder[i] : i \in 1..Len(SourceOrder)} |->
         IF src = "reddit" THEN l ELSE <<>>] :
       l \in SeqsUpTo(ScoredPool, MaxScored)}

\* topic_scores.get(key, 0) + score raises TypeError for a score of None:
\* the first loop does so at the first such candidate.
ScoreRaises(flat) ==
    \E i \in 1..Len(flat) : Get(flat[i], "score", DEFAULT_SCORE) = NoneScore

(***************************************************************************)
(* utils/file_manager.py: file_hash and deduplicate_files.                 *)
(***************************************************************************)

\* The file references of the bounded inputs.
FilePaths == {"a.jpg", "b.jpg", "c.jpg"}

\* What a file holds: 0 for a file that cannot be opened or read, otherwise
\* its content.
FileContents == 0..3

\* Bound: the length of the list handed to deduplicate_files.
MaxPaths == 4

\* file_hash raises for a file that cannot be read.
HashFails(fs, p) == fs[p] = 0

\* file_hash: the MD5 digest of the content, one digest per content.
file_hash(fs, p) == <<"md5", fs[p]>>

\* A loop that puts each kept path in front of the ones kept before.
RECURSIVE DedupLoopPrepend(_, _, _, _, _)
DedupLoopPrepend(fs, paths, i, seen, unique) ==
    IF i > Len(paths)
    THEN unique
    ELSE IF HashFails(fs, paths[i])
         THEN DedupLoopPrepend(fs, paths, i + 1, seen, <<paths[i]>> \o unique)
         ELSE IF file_hash(fs, paths[i]) \notin seen
              THEN DedupLoopPrepend(fs, paths, i + 1,
                                    seen \cup {file_hash(fs, paths[i])},
                                    <<paths[i]>> \o unique)
              ELSE DedupLoopPrepend(fs, paths, i + 1, seen, unique)

\* A loop that loses the paths it cannot hash.
RECURSIVE DedupLoopDropUnhashed(_, _, _, _, _)
DedupLoopDropUnhashed(fs, paths, i, seen, unique) ==
    IF i > Len(paths)
    THEN unique
    ELSE IF HashFails(fs, paths[i])
         THEN DedupLoopDropUnhashed(fs, paths, i + 1, seen, unique)
         ELSE IF file_hash(fs, paths[i]) \notin seen
              THEN DedupLoopDropUnhashed(fs, paths, i + 1,
                                         seen \cup {file_hash(fs, paths[i])},
                                         Append(unique, paths[i]))
              ELSE DedupLoopDropUnhashed(fs, paths, i + 1, seen, unique)

\* for p in paths: a path whose hash is new is kept and its hash remembered; a
\* path whose hash was seen is left out; a path that cannot be hashed is kept.
RECURSIVE DedupFileLoop(_, _, _, _, _)
DedupFileLoop(fs, paths, i, seen, unique) ==
    IF i > Len(paths)
    THEN unique
    ELSE IF HashFails(fs, paths[i])
         THEN DedupFileLoop(fs, paths, i + 1, seen, Append(unique, paths[i]))
         ELSE IF file_hash(fs, paths[i]) \notin seen
              THEN DedupFileLoop(fs, paths, i + 1,
                                 seen \cup {file_hash(fs, paths[i])},
                                 Append(unique, paths[i]))
              ELSE DedupFileLoop(fs, paths, i + 1, seen, unique)

\* deduplicate_files(paths) on the file system fs.
deduplicate_files(fs, paths) == DedupFileLoop(fs, paths, 1, {}, <<>>)

\* The variables of deduplicate_files while it is not the function studied.
DedupIdle ==
    /\ dd_fs = [p \in FilePaths |-> 0]
    /\ dd_paths = <<>>
    /\ dd_once = <<>>
    /\ dd_twice = <<>>
    /\ dd_touched = FALSE
    /\ dd_pc = "idle"

(***************************************************************************)
(* The scheduled-post queue: PublisherAgent.schedule_post, _schedule_all,  *)
(* _load_queue and _save_queue, with the JSON encoding of the queue file.  *)
(***************************************************************************)

\* Python values, tagged with their type; the payload is a sequence of strings.
PyStr(s) == <<"str", <<s>>>>
PyNone == <<"NoneType", <<>>>>
PyPath(s) == <<"PosixPath", <<s>>>>
PyList(xs) == <<"list", xs>>
PyDict(xs) == <<"dict", xs>>

\* json.dumps accepts str, None, list, tuple and dict, and raises TypeError
\* on any other object.
JsonEncodable(v) == v[1] \in {"str", "NoneType", "list", "tuple", "dict"}

\* json.dumps of one value.
json_dumps_value(v) ==
    CASE v[1] = "str" -> <<"string", v[2]>>
      [] v[1] = "NoneType" -> <<"null", <<>>>>
      [] v[1] \in {"list", "tuple"} -> <<"array", v[2]>>
      [] v[1] = "dict" -> <<"object", v[2]>>

\* json.loads of one value.
json_loads_value(j) ==
    CASE j[1] = "string" -> <<"str", j[2]>>
      [] j[1] = "null" -> <<"NoneType", <<>>>>
      [] j[1] = "array" -> <<"list", j[2]>>
      [] j[1] = "object" -> <<"dict", j[2]>>

\* The keys of the content payload publish_to_all_platforms documents.
ContentKeys == {"title", "captions", "thumbnail", "tags"}

\* The payload run_full_pipeline builds, with the thumbnail create_thumbnail
\* returned (a Path), and payloads without a thumbnail.
ContentOf(title, thumbnail) ==
    [k \in ContentKeys |->
        CASE k = "title" -> PyStr(title)
          [] k = "captions" -> PyDict(<<"Visit Tunis #travel">>)
          [] k = "thumbnail" -> thumbnail
          [] k = "tags" -> PyList(<<"#Tunis", "#Tunisia">>)]

Contents ==
    { ContentOf("Visit Tunis", PyNone),
      ContentOf("Visit Tunis", PyPath("thumbnail.jpg")),
      ContentOf("The old port", PyNone) }

\* A datetime, by the two texts the queue makes of it:
\* strftime('%Y%m%d_%H%M%S') and isoformat().
PublishTimes ==
    { [stamp |-> "20261106_090000", iso |-> "2026-11-06T09:00:00"],
      [stamp |-> "20261106_090000", iso |-> "2026-11-06T09:00:00.500000"],
      [stamp |-> "20261107_183000", iso |-> "2026-11-07T18:30:00"] }

strftime(t) == t.stamp

isoformat(t) == t.iso

\* Bound: the number of scheduling calls made.
MaxCalls == 2

\* The states of the queue file other than holding a JSON object.
FileAbsent == <<"absent">>
FileDamaged == <<"damaged">>

\* dict[key] = value
Put(d, key, value) ==
    [k \in DOMAIN d \cup {key} |-> IF k = key THEN value ELSE d[k]]

\* The queue record of one post, as schedule_post builds it.
QueueEntry(platform, content, publish_time) ==
    [platform |-> PyStr(platform),
     content |-> content,
     publish_time |-> PyStr(isoformat(publish_time)),
     status |-> PyStr("pending")]

EntryEncodable(e) ==
    /\ JsonEncodable(e.platform)
    /\ \A k \in DOMAIN e.content : JsonEncodable(e.content[k])
    /\ JsonEncodable(e.publish_time)
    /\ JsonEncodable(e.status)

EncodeEntry(e) ==
    [platform |-> json_dumps_value(e.platform),
     content |-> [k \in DOMAIN e.content |-> json_dumps_value(e.content[k])],
     publish_time |-> json_dumps_value(e.publish_time),
     status |-> json_dumps_value(e.status)]

DecodeEntry(j) ==
    [platform |-> json_loads_value(j.platform),
     content |-> [k \in DOMAIN j.content |-> json_loads_value(j.content[k])],
     publish_time |-> json_loads_value(j.publish_time),
     status |-> json_loads_value(j.status)]

\* _load_queue: the decoded file, or an empty dict when the file is absent
\* or cannot be parsed.
load_queue(file) ==
    IF file[1] = "json"
    THEN [k \in DOMAIN file[2] |-> DecodeEntry(file[2][k])]
    ELSE <<>>

\* _save_queue: json.dumps(queue) raises before anything is written;
\* otherwise the file is replaced as a whole.
save_queue(file, queue) ==
    IF \A k \in DOMAIN queue : EntryEncodable(queue[k])
    THEN [file |-> <<"json", [k \in DOMAIN queue |-> EncodeEntry(queue[k])]>>,
          raised |-> FALSE]
    ELSE [file |-> file, raised |-> TRUE]

\* f"{platform}_{publish_time.strftime('%Y%m%d_%H%M%S')}"
EntryId(platform, publish_time) == platform \o "_" \o strftime(publish_time)

\* schedule_post on the given file: the file afterwards, the id returned,
\* and whether the call raised instead of returning.
schedule_post(file, platform, content, publish_time) ==
    LET entry_id == EntryId(platform, publish_time)
        queue == Put(load_queue(file), entry_id,
                     QueueEntry(platform, content, publish_time))
        saved == save_queue(file, queue)
    IN  [file |-> saved.file, value |-> entry_id, raised |-> saved.raised]

\* _schedule_all: schedule_post for each configured platform in turn; an
\* exception of schedule_post ends the loop and leaves the function.
RECURSIVE ScheduleAllLoop(_, _, _, _, _, _)
ScheduleAllLoop(file, platforms, i, content, schedule_time, res) ==
    IF i > Len(platforms)
    THEN [file |-> file, value |-> res, raised |-> FALSE]
    ELSE LET r == schedule_post(file, platforms[i], content, schedule_time)
         IN  IF r.raised
             THEN [file |-> r.file, value |-> res, raised |-> TRUE]
             ELSE ScheduleAllLoop(r.file, platforms, i + 1, content,
                                  schedule_time,
                                  Put(res, platforms[i],
                                      "scheduled:" \o r.value))

schedule_all(file, platforms, content, schedule_time) ==
    ScheduleAllLoop(file, platforms, 1, content, schedule_time, <<>>)

\* No scheduling call yet.
NoCall ==
    [op |-> "none", platform |-> "", content |-> ContentOf("", PyNone),
     time |-> [stamp |-> "", iso |-> ""]]

\* The queue variables while the queue is not the function studied.
QueueIdle ==
    /\ q_file = FileAbsent
    /\ q_call = NoCall
    /\ q_ret = [value |-> "", raised |-> FALSE]
    /\ q_calls = 0

(***************************************************************************)
(* The performance table: AnalyticsAgent._init_db and store_metrics.       *)
(***************************************************************************)

\* The platforms whose metrics are fetched and stored.
MetricPlatforms == {"youtube", "instagram"}

\* Post ids and metric dicts (the number of views) handed to store_metrics.
PostIds == {"vid1", "vid2"}
MetricValues == {10, 20}

\* Bound: the number of store_metrics calls.
MaxStores == 3

\* Bound: the clock runs up to this many half days.
MaxClock == 3

\* datetime.now().strftime("%Y-%m-%d"): the day, without the time of day.
DateOf(now) == now \div 2

\* json.dumps(metrics)
MetricsJson(metrics) == <<"json", metrics>>

\* The columns of UNIQUE(platform, post_id, date).
UniqueKey(r) == <<r.platform, r.post_id, r.date>>

\* INSERT without OR REPLACE and without the UNIQUE constraint: the row is
\* added whatever the table holds.
InsertOnly(rows, id, platform, post_id, now, metrics, topic) ==
    rows \cup {[id |-> id, platform |-> platform, post_id |-> post_id,
                date |-> DateOf(now), metrics_json |-> MetricsJson(metrics),
                topic |-> topic]}

\* INSERT OR REPLACE INTO performance: the rows that conflict with the new
\* one on UNIQUE(platform, post_id, date) are deleted, then the new row is
\* inserted with a fresh id.
InsertOrReplace(rows, id, platform, post_id, now, metrics, topic) ==
    LET new == [id |-> id, platform |-> platform, post_id |-> post_id,
                date |-> DateOf(now), metrics_json |-> MetricsJson(metrics),
                topic |-> topic]
    IN  {r \in rows : UniqueKey(r) # UniqueKey(new)} \cup {new}

\* The performance variables while the table is not the object studied.
PerfIdle ==
    /\ perf_rows = {}
    /\ perf_next_id = 1
    /\ perf_now = 0
    /\ perf_prev = {}
    /\ perf_call = [platform |-> "", post_id |-> "", metrics |-> 0,
                    date |-> 0, returned |-> FALSE]
    /\ perf_calls = 0

(***************************************************************************)
(* collect_all_images: the code after the gather, with deduplicate_files,  *)
(* _resize_to_video_format and _create_placeholder.                        *)
(***************************************************************************)

\* Bound: total_needed.
MaxNeeded == 3

\* Bound: the number of search futures gathered.
MaxFutures == 2

\* Bound: the number of files one search hands back.
MaxHits == 1

\* The downloaded files: a and b with the same content, one file unreadable,
\* all unreadable, all different.
ImageFileSystems ==
    { [p \in FilePaths |-> IF p = "c.jpg" THEN 2 ELSE 1],
      [p \in FilePaths |-> CASE p = "a.jpg" -> 1 [] p = "b.jpg" -> 2
                                               [] p = "c.jpg" -> 0],
      [p \in FilePaths |-> 0],
      [p \in FilePaths |-> CASE p = "a.jpg" -> 1 [] p = "b.jpg" -> 2
                                               [] p = "c.jpg" -> 3] }

\* What a search hands back when it returns: a list of downloaded files.
SearchReplies == SeqsUpTo(FilePaths, MaxHits)

\* What the extra search on the location name hands back: nothing (no key,
\* an error) or one file.
ExtraReplies == {<<>>} \cup {<<p>> : p \in FilePaths}

\* get_output_path("images", f"resized_{image_path.name}")
ResizedPath(p) == <<"resized", p>>

\* _create_placeholder(index): placeholder_{index:02d}.jpg
create_placeholder(index) ==
    <<"placeholder", IF index = 0 THEN "placeholder_00.jpg"
                     ELSE "placeholder_nn.jpg">>

\* The resize loop: _resize_to_video_format returns None for a file it
\* cannot open or save, and the file is left out.
ResizeAll(paths, bad) ==
    LET kept == SelectSeq(paths, LAMBDA p : p \notin bad)
    IN  [i \in 1..Len(kept) |-> ResizedPath(kept[i])]

\* A collection that is returned as short as it is.
PadNever(resized, needed, placeholder_ok) ==
    [list |-> resized, raised |-> FALSE]

\* while len(resized) < total_needed: append the last resized image, or a
\* placeholder when there is none; _create_placeholder is not guarded.
RECURSIVE PadLoop(_, _, _)
PadLoop(resized, needed, placeholder_ok) ==
    IF Len(resized) >= needed
    THEN [list |-> resized, raised |-> FALSE]
    ELSE IF resized # <<>>
         THEN PadLoop(Append(resized, resized[Len(resized)]), needed,
                      placeholder_ok)
         ELSE IF placeholder_ok
              THEN PadLoop(<<create_placeholder(Len(resized))>>, needed,
                           placeholder_ok)
              ELSE [list |-> resized, raised |-> TRUE]

\* all_paths after the first deduplication and, when that is short, after
\* the extra Unsplash search on the location name and the second one.
DedupedPaths(fs, all_paths, needed, extra) ==
    LET first == deduplicate_files(fs, all_paths)
    IN  IF Len(first) < needed
        THEN deduplicate_files(fs, first \o extra)
        ELSE first

\* The image variables while collect_all_images is not the function studied.
ImageIdle ==
    /\ im_fs = [p \in FilePaths |-> 0]
    /\ im_needed = 0
    /\ im_futures = 0
    /\ im_all_paths = <<>>
    /\ im_deduped = <<>>
    /\ im_out = <<>>
    /\ im_pc = "idle"

(***************************************************************************)
(* The connectors of the trend, image and publish steps, with their        *)
(* credential checks.                                                      *)
(***************************************************************************)

\* PublisherAgent.MAX_RETRIES
MAX_RETRIES == 3

\* The connectors of each step, in the order the step starts them.
TrendConnectors ==
    <<"get_google_trends", "get_reddit_trends", "get_youtube_trends",
      "get_news_trends", "get_duckduckgo_trends">>

ImageConnectors ==
    <<"search_unsplash", "search_pexels", "search_pixabay", "search_wikimedia">>

PublishConnectors ==
    <<"publish_to_youtube", "publish_to_instagram", "publish_to_facebook",
      "publish_to_telegram">>

StepConnectors(step) ==
    CASE step = "trends" -> TrendConnectors
      [] step = "images" -> ImageConnectors
      [] step = "publish" -> PublishConnectors
      [] OTHER -> <<>>

ConnectorSet(step) ==
    {StepConnectors(step)[i] : i \in 1..Len(StepConnectors(step))}

\* The connectors that begin by testing a credential (or the client built
\* from it); the others need none.
NeedsCredential ==
    {"get_reddit_trends", "get_youtube_trends", "get_news_trends",
     "search_unsplash", "search_pexels", "search_pixabay",
     "publish_to_youtube", "publish_to_instagram", "publish_to_facebook",
     "publish_to_telegram"}

\* What a connector returns.
Returned(calls, value) == [calls |-> calls, value |-> value, raised |-> FALSE]

\* A search that asks its service once and returns the hits, or an empty
\* list when the request fails.
SearchOnce(service, ok) ==
    Returned(<<service>>,
             IF ok THEN PyList(<<service \o " hit">>) ELSE PyList(<<>>))

\* _youtube_via_ddg: a DuckDuckGo search, an empty list when it fails.
youtube_via_ddg(ok) == SearchOnce("duckduckgo", ok)

\* A connector that goes to its service whether or not it has a credential.
ConnectorRunUnchecked(c, has_credential, first_ok, second_ok) ==
    SearchOnce(c, first_ok)

\* One call of connector c.  first_ok: the request to its own service goes
\* through; second_ok: the DuckDuckGo search of the YouTube fallback does.
ConnectorRun(c, has_credential, first_ok, second_ok) ==
    CASE c \in ConnectorSet("publish") ->
            IF ~has_credential THEN Returned(<<>>, PyNone)
            ELSE IF first_ok THEN Returned(<<c>>, PyStr(c \o " post"))
            ELSE Returned([i \in 1..MAX_RETRIES |-> c], PyNone)
      [] c = "get_youtube_trends" ->
            IF ~has_credential THEN youtube_via_ddg(second_ok)
            ELSE IF first_ok THEN SearchOnce(c, TRUE)
            ELSE Returned(<<c>> \o youtube_via_ddg(second_ok).calls,
                          youtube_via_ddg(second_ok).value)
      [] OTHER ->
            IF ~has_credential THEN Returned(<<>>, PyList(<<>>))
            ELSE SearchOnce(c, first_ok)

\* What the step has in hand once every connector has ended: the lists of
\* the searches extended into one, or the platform -> result map.
StepOutput(step, done, connectors) ==
    IF step = "publish"
    THEN [c \in {connectors[i] : i \in 1..Len(connectors)} |-> done[c].value]
    ELSE Concat([i \in 1..Len(connectors) |-> done[connectors[i]].value[2]])

\* The connector variables while no step is studied by itself.
ConnIdle ==
    /\ cn_step = "none"
    /\ cn_creds = {}
    /\ cn_done = <<>>
    /\ cn_out = <<>>
    /\ cn_pc = "idle"

(***************************************************************************)
(* generate_video_script and _fallback_script.                             *)
(***************************************************************************)

\* The keys the prompt asks for and _fallback_script provides.
RequiredKeys ==
    {"hook", "intro", "main_content", "transition_texts", "voiceover_script",
     "outro", "title", "description", "thumbnail_text", "search_queries"}

\* The keys whose value is a list of strings.
ListKeys == {"main_content", "transition_texts", "search_queries"}

\* The number of transition texts, one for each image of the video.
TRANSITION_TEXTS == 12

\* config.LOCATION["name"]
LOCATION_name == "Tunis"

\* A list of n strings.
Strings(n, text) == PyList([i \in 1..n |-> text])

\* A script dict with the given keys and number of transition texts.
ScriptOf(keys, transitions, title) ==
    [k \in keys |->
        CASE k = "transition_texts" -> Strings(transitions, "text for image")
          [] k = "main_content" -> Strings(5, "point")
          [] k = "search_queries" -> Strings(3, "query")
          [] k = "title" -> PyStr(title)
          [] OTHER -> PyStr(k)]

\* _fallback_script(topic, location, style): a fixed script about the
\* location, whatever the topic and style.
fallback_script(topic, loc, style) ==
    [k \in RequiredKeys |->
        CASE k = "transition_texts" -> Strings(TRANSITION_TEXTS, "Sunset Spots")
          [] k = "main_content" -> Strings(5, "Taste authentic local cuisine")
          [] k = "search_queries" -> Strings(3, loc \o " travel photography")
          [] k = "title" -> PyStr("Top 5 Reasons to Visit " \o loc \o " Right Now")
          [] OTHER -> PyStr(k \o " of " \o loc)]

\* The JSON objects Gemini may answer with: the script asked for, a script
\* with five transition texts, a script of two keys, an empty object.
ScriptObjects ==
    { ScriptOf(RequiredKeys, TRANSITION_TEXTS, "Tunis in 60 seconds"),
      ScriptOf(RequiredKeys, 5, "Tunis in 60 seconds"),
      ScriptOf({"hook", "title"}, 0, "Tunis in 60 seconds"),
      ScriptOf({}, 0, "") }

\* A response text: how it is fenced (no code fence, a bare fence, a fence
\* tagged json, a fence tagged with another language) and what json.loads
\* makes of the text inside: not JSON, or a JSON array, string or object.
ResponseTexts ==
    [kind : {"text"},
     fence : {"none", "bare", "json", "text"},
     json : {"invalid", "array", "string"},
     script : {ScriptOf({}, 0, "")}]
    \cup
    [kind : {"text"},
     fence : {"none", "bare", "json", "text"},
     json : {"object"},
     script : ScriptObjects]

\* What the call to Gemini does: there is no client (no API key), the API
\* raises, or it answers with a text.
ApiOutcomes ==
    [kind : {"no_client", "error"}, fence : {"none"}, json : {"invalid"},
     script : {ScriptOf({}, 0, "")}]
    \cup ResponseTexts

\* raw.strip(), the text between the fences when raw starts with one, less a
\* leading "json", stripped again: any other language tag stays in the text,
\* which json.loads then rejects.
Unfenced(response) ==
    IF response.fence = "text"
    THEN [response EXCEPT !.json = "invalid"]
    ELSE response

\* generate_video_script: the parsed response when json.loads gives a dict,
\* the fallback script when the client is missing, the API raises, the text
\* is not JSON (JSONDecodeError) or the parsed value has no get method.
generate_video_script(api, topic, loc, style) ==
    IF api.kind # "text"
    THEN fallback_script(topic, loc, style)
    ELSE LET raw == Unfenced(api)
         IN  IF raw.json = "object"
             THEN raw.script
             ELSE fallback_script(topic, loc, style)

\* The script variables while generate_video_script is not studied by itself.
ScriptIdle ==
    /\ sc_api = [kind |-> "no_client", fence |-> "none", json |-> "invalid",
                 script |-> ScriptOf({}, 0, "")]
    /\ sc_topic = ""
    /\ sc_style = ""
    /\ sc_ret = ScriptOf({}, 0, "")
    /\ sc_pc = "idle"

(***************************************************************************)
(* Scheduled mode: run_scheduled, AgentScheduler and asyncio.run(main()).  *)
(***************************************************************************)

\* The awaits of run_full_pipeline, the points where a cancellation reaches
\* it: discover_all_trends, generate_video_script, collect_all_images,
\* generate_voice, search_pixabay_music, publish_to_all_platforms.
PIPELINE_AWAITS == 6

\* Bound: the cron trigger fires the pipeline job at most this often.
MaxFires == 2

\* Bound: the clock, in seconds, runs up to this value.
MaxSeconds == 3

\* Where the interrupt surfaces.  "coroutine": KeyboardInterrupt is raised
\* in the code of run_scheduled itself.  "loop": it reaches the event loop,
\* which cancels the main task (CancelledError at the await of the sleep)
\* or lets KeyboardInterrupt leave run_until_complete; neither is caught by
\* except (KeyboardInterrupt, SystemExit) around the sleep.
InterruptPlaces == {"coroutine", "loop"}

\* What firing the pipeline job does: the lambda's asyncio.create_task gives
\* a task on the loop, or it raises (no running loop in the thread the
\* scheduler calls a plain function in) and no pipeline runs.
FireOutcomes == {"task", "error"}

\* AgentScheduler.shutdown: scheduler.shutdown(wait=False) if running.
shutdown(running) == FALSE

\* asyncio.run on its way out: every task still pending is cancelled.
CancelRemaining(task) == IF task = "running" THEN "cancelled" ELSE task

\* f"analytics_{run_at.strftime('%Y%m%d_%H%M%S')}": the id names the second.
AnalyticsJobId(now) == <<"analytics", now>>

\* Bound: the pipeline runs that reach schedule_analytics.
MaxRuns == 3

\* timedelta(hours=24), in seconds.
DAY == 86400

\* scheduler.add_job(fn, trigger, id=job_id) without replace_existing: a
\* running scheduler puts the job in its store and raises ConflictingIdError
\* when the id is there already; a scheduler not yet started keeps the job
\* in its pending list, whatever its id.
add_job(store, pending, running, job_id) ==
    IF running
    THEN IF job_id \in store
         THEN [outcome |-> "raised", store |-> store, pending |-> pending]
         ELSE [outcome |-> "added", store |-> store \cup {job_id},
               pending |-> pending]
    ELSE [outcome |-> "pending", store |-> store,
          pending |-> Append(pending, job_id)]

\* The scheduler variables while the scheduler is not studied by itself.
SchedIdle ==
    /\ sd_main = "idle"
    /\ sd_running = FALSE
    /\ sd_loop = "running"
    /\ sd_task = "none"
    /\ sd_step = 0
    /\ sd_fired = 0
    /\ sd_interrupted = FALSE
    /\ sd_now = 0
    /\ sd_store = {}
    /\ sd_pending = <<>>
    /\ sd_calls = <<>>

(***************************************************************************)
(* One call of a platform publisher with its retry loop, and               *)
(* _wait_for_ig_processing.                                                *)
(***************************************************************************)

\* PublisherAgent.RETRY_DELAY, in seconds.
RETRY_DELAY == 5

\* The requests of one attempt, in program order; the first one hands the
\* video to the platform.  The YouTube thumbnail is set only when a
\* thumbnail file is given and exists.
AttemptRequests(platform, thumb) ==
    CASE platform = "publish_to_youtube" ->
            IF thumb THEN <<"videos.insert", "thumbnails.set">>
                     ELSE <<"videos.insert">>
      [] platform = "publish_to_instagram" ->
            <<"media", "wait_for_ig_processing", "media_publish">>
      [] platform = "publish_to_facebook" -> <<"videos">>
      [] platform = "publish_to_telegram" -> <<"sendVideo", "pinChatMessage">>

\* A retry delay that does not grow with the attempt number.
RetrySleepFlat(attempt) == RETRY_DELAY

\* time.sleep(self.RETRY_DELAY * attempt)
RetrySleep(attempt) == RETRY_DELAY * attempt

\* The except clause of attempt number "attempt": the sleep, if any, added
\* to the sleeps made so far.
AfterFailedAttempt(waits, attempt) ==
    IF attempt < MAX_RETRIES THEN Append(waits, RetrySleep(attempt)) ELSE waits

\* _wait_for_ig_processing(container_id, params, timeout=120)
IG_TIMEOUT == 120

\* time.sleep(5) between two polls.
IG_POLL_SLEEP == 5

\* session.get(..., timeout=10): a poll takes no time worth counting, five
\* seconds or the ten seconds of its timeout.
PollTimes == {0, 5, 10}

\* What a poll reports: a status_code, no status_code (""), or an exception
\* of session.get or resp.json().
PollReports == {"FINISHED", "ERROR", "IN_PROGRESS", "", "raises"}

\* A loop test that lets a poll start at the deadline itself.
PollsUpToDeadline(now, deadline) == now <= deadline

\* while time.time() < deadline
PollsBeforeDeadline(now, deadline) == now < deadline

\* The ways _wait_for_ig_processing ends.
IgEnded == {"returned", "processing_failed", "timeout", "raised"}

\* The publisher variables while no publisher is studied by itself.
PubIdle ==
    /\ pb_platform = ""
    /\ pb_thumb = FALSE
    /\ pb_creds = FALSE
    /\ pb_attempt = 0
    /\ pb_request = 0
    /\ pb_failed = 0
    /\ pb_waits = <<>>
    /\ pb_uploads = 0
    /\ pb_ret = "None"
    /\ pb_pc = "idle"
    /\ ig_now = 0
    /\ ig_deadline = 0
    /\ ig_started = <<>>
    /\ ig_report = "none"
    /\ ig_pc = "idle"

(***************************************************************************)
(* agents/voice_agent.py: the ElevenLabs usage file and generate_voice.    *)
(***************************************************************************)

\* _EL_FREE_LIMIT, characters per month.
EL_FREE_LIMIT == 10000

\* Bound: the voice generations of one history.
MaxVoiceCalls == 3

\* len(script_text) of the texts handed to generate_voice.
TextLengths == {0, 1, 4000, 6000, 9999, 10000, 10001}

\* The usage file: <<>> while it does not exist, <<n>> once str(n) has been
\* written to it.
Recorded(file) == IF file = <<>> THEN 0 ELSE file[1]

\* _read_el_usage: int(read_text().strip()), or 0 when that raises: the
\* file does not exist yet, or it is there and cannot be read or parsed.
read_el_usage(file, misread) == IF misread THEN 0 ELSE Recorded(file)

\* A limit test that forgets the length of the new text.
OverLimitIgnoringText(used, length) == used > EL_FREE_LIMIT

\* if used + len(script_text) > _EL_FREE_LIMIT
OverLimit(used, length) == used + length > EL_FREE_LIMIT

\* generate_elevenlabs_voice followed by the fallback of generate_voice:
\* what was read, whether the paid API was called, the usage file afterwards
\* and which voice generate_voice returns.
generate_voice(file, client, length, misread, api_ok, write_ok) ==
    LET used == read_el_usage(file, misread)
    IN  IF ~client
        THEN [used |-> 0, api_called |-> FALSE, file |-> file, ret |-> "gtts"]
        ELSE IF OverLimit(used, length)
        THEN [used |-> used, api_called |-> FALSE, file |-> file,
              ret |-> "gtts"]
        ELSE IF api_ok /\ write_ok
        THEN [used |-> used, api_called |-> TRUE, file |-> <<used + length>>,
              ret |-> "elevenlabs"]
        ELSE [used |-> used, api_called |-> TRUE, file |-> file,
              ret |-> "gtts"]

\* No voice generation yet.
NoVoiceCall ==
    [length |-> 0, misread |-> FALSE, api_ok |-> FALSE, used |-> 0,
     api_called |-> FALSE, ret |-> "none"]

\* The voice variables while generate_voice is not studied by itself.
VoiceIdle ==
    /\ vo_file = <<>>
    /\ vo_client = FALSE
    /\ vo_prev = <<>>
    /\ vo_last = NoVoiceCall
    /\ vo_calls = 0

(***************************************************************************)
(* agents/music_agent.py: search_pixabay_music.                            *)
(***************************************************************************)

\* Bound: the nesting of search_pixabay_music calls at which Python raises
\* RecursionError instead of entering one more (about a thousand frames in
\* a real run).
RecursionCap == 5

\* The mood and genre arguments of the outermost call.
Moods == {"inspiring", "happy", "ambient"}

Genres == {"cinematic", "travel", "background"}

\* "q": f"{mood} {genre} travel"
MusicQuery(mood, genre) == <<mood, genre, "travel">>

\* What a search request comes to: hits with an audio URL whose download
\* works or fails, a hit without audio URL, no hits, or an exception of the
\* request itself.
SearchOutcomes == {"track", "download_fails", "no_audio", "no_hits", "raises"}

\* What search_pixabay_music returns after a request that does not lead to
\* another search: the downloaded track, or the music that
\* _generate_ambient_music or download_free_music falls back to.
MusicAfter(outcome) == IF outcome = "track" THEN "downloaded" ELSE "generated"

\* The music variables while search_pixabay_music is not studied by itself.
MusicIdle ==
    /\ mu_key = FALSE
    /\ mu_args = <<>>
    /\ mu_queries = <<>>
    /\ mu_depth = 0
    /\ mu_ret = "none"
    /\ mu_pc = "idle"

(***************************************************************************)
(* main.py: step 4 (text overlays) and the slideshow of step 8.            *)
(***************************************************************************)

\* config.VIDEO_CONFIG["images_per_video"]: the length of the list that
\* collect_all_images returns.
IMAGES_PER_VIDEO == 12

\* Bound: the longest transition_texts list of a script.
MaxTexts == 14

\* The images of step 3, by their position in the list.
CollectedImages == [i \in 1..IMAGES_PER_VIDEO |-> i]

\* The transition_texts a script can carry: no such key, or a list of texts
\* (here numbered) of any length.
ScriptTexts ==
    {[present |-> FALSE, texts |-> <<>>]}
        \cup {[present |-> TRUE, texts |-> [i \in 1..n |-> i]] : n \in 0..MaxTexts}

\* Images that Image.open cannot read.
UnreadableSets == SUBSET {1, 2}

\* script.get("transition_texts", [""] * len(images)); 0 is the empty text.
transition_texts(script_texts, images) ==
    IF script_texts.present THEN script_texts.texts
    ELSE [i \in 1..Len(images) |-> 0]

\* zip(a, b): pairs up to the end of the shorter list.
zip(a, b) ==
    [i \in 1..(IF Len(a) <= Len(b) THEN Len(a) ELSE Len(b)) |-> <<a[i], b[i]>>]

\* add_text_overlay(img, text): the overlay file written for the image, or
\* the image itself when anything in the try block raises.
add_text_overlay(img, text, unreadable) ==
    IF img \in unreadable THEN <<"image", img>> ELSE <<"overlay", img, text>>

\* The overlay variables while step 4 is not studied by itself.
OverlayIdle ==
    /\ ov_texts = [present |-> FALSE, texts |-> <<>>]
    /\ ov_unreadable = {}
    /\ ov_pairs = <<>>
    /\ ov_out = <<>>
    /\ ov_clips = -1
    /\ ov_pc = "idle"

ExtIdle ==
    /\ DedupIdle
    /\ QueueIdle
    /\ PerfIdle
    /\ ImageIdle
    /\ ConnIdle
    /\ ScriptIdle
    /\ SchedIdle
    /\ PubIdle
    /\ VoiceIdle
    /\ MusicIdle
    /\ OverlayIdle

(***************************************************************************)
(* run_full_pipeline: constants, inputs and helpers.                       *)
(***************************************************************************)

\* The ten steps of run_full_pipeline, in program order.
StepOrder ==
    <<"TrendDiscovery", "ScriptWriting", "ImageCollection", "TextOverlay",
      "Voiceover", "MusicSourcing", "AudioMix", "VideoAssembly", "Publish",
      "AnalyticsLog">>

\* The platforms publish_to_all_platforms knows, in the order it creates and
\* awaits their tasks.
PlatformOrder == <<"youtube", "instagram", "facebook", "telegram">>

Platforms == {PlatformOrder[i] : i \in 1..Len(PlatformOrder)}

Sources == {SourceOrder[i] : i \in 1..Len(SourceOrder)}

\* config.SCHEDULE["platforms"] as configured.
CONFIGURED_PLATFORMS == <<"youtube", "instagram", "facebook", "telegram">>

\* The image sources searched for every query: unsplash, pexels, pixabay,
\* wikimedia.
IMAGE_SOURCES == 4

\* Bound: the number of search queries a script carries.
MaxQueries == 1

\* Bound: failed collaborators are counted up to this number.
FaultCap == 2

\* Python's None, an absent topic or result.
None == <<>>

\* The value a publisher returns on success: the post URL (the message id for
\* telegram) of that platform.
PostRef(p) == <<"posted", p>>

DRY_RUN == <<"dry-run">>

\* The command-line arguments a run is started with: --topic, --dry-run,
\* --platform, --language and --preview.
\* --preview is explored together with --topic and the default language.
RunArgs ==
    {a \in [override_topic : {None, T_OldPort},
            dry_run : BOOLEAN,
            platform_filter : {""} \cup Platforms,
            language : {"en", "arabic"},
            preview : BOOLEAN] :
        a.preview => (a.override_topic # None /\ a.language = "en")}

\* The arguments of a program that runs no pipeline.
IdleArgs ==
    [override_topic |-> None, dry_run |-> FALSE, platform_filter |-> "",
     language |-> "en", preview |-> FALSE]

\* What a trend connector hands over when its call returns: here the
\* youtube, news and duckduckgo connectors find nothing.
TrendReply(src) ==
    CASE src = "google" -> <<Cand(T_TunisBeaches, 80, "google_trends")>>
      [] src = "reddit" -> <<Cand(T_BeachesAmazing, 60, "reddit/travel")>>
      [] OTHER -> <<>>

\* r if not isinstance(r, Exception) else []
TrendResult(src, st) == IF st = "returned" THEN TrendReply(src) ELSE <<>>

\* get_best_topic: ranked[0]["topic"] if ranked else keywords[0]
get_best_topic(rk) == IF rk # <<>> THEN rk[1].topic ELSE LOCATION_keywords[1]

\* One more failed collaborator.
Failed(n) == IF n < FaultCap THEN n + 1 ELSE FaultCap

\* A wait that does not wait: every future counts as complete.
DoneAlways(st) == TRUE

\* A future is complete once it has returned or raised.
Done(st) == st \in {"returned", "raised"}

\* await asyncio.gather(*futures, return_exceptions=True) returns once every
\* future of the batch is complete.
BatchDone(tasks) == \A m \in DOMAIN tasks : Done(tasks[m])

\* The number of complete futures of a batch.
Complete(tasks) == Cardinality({m \in DOMAIN tasks : tasks[m] \in {"returned", "raised"}})

\* A step entered ahead of the steps before it.
StartOutOfOrder(name) == started' = <<name>> \o started

\* step(...): the step is entered.
Start(name) == started' = Append(started, name)

\* step_ok(...): the step has run to its end.
Finish(name) == finished' = Append(finished, name)

\* An exception leaves run_full_pipeline: the run ends without a result.
Raise == pipe_pc' = "raised"

NoTasks == [m \in {} |-> "pending"]

\* A row of the content table left by an earlier run.
EarlierRow == [created_at |-> "earlier", post_ids |-> <<"json", NoTasks>>]

\* The row log_content writes for this run: created_at and
\* json.dumps(post_ids).
ContentRow(post_ids) == [created_at |-> "now", post_ids |-> <<"json", post_ids>>]

\* A log that keeps only its newest row.
LogContentOverwrites(rows, row, db_ok) == IF db_ok THEN <<row>> ELSE rows

\* log_content: INSERT INTO content; when sqlite3 raises, the failure is
\* logged as a warning and the table is as it was.
log_content(rows, row, db_ok) == IF db_ok THEN Append(rows, row) ELSE rows

\* input("Publish now? [y/N] "), as typed: "y", "Y", "y ", "n", "yes", "".
Answers == {<<121>>, <<89>>, <<121, 32>>, <<110>>, <<121, 101, 115>>, <<>>}

\* The str "y".
YES == <<121>>

\* str.strip(): without the blanks at both ends.
Strip(s) ==
    LET solid == {i \in 1..Len(s) : s[i] # 32}
    IN  IF solid = {} THEN <<>>
        ELSE LET first == CHOOSE i \in solid : \A j \in solid : i <= j
                 last == CHOOSE i \in solid : \A j \in solid : j <= i
             IN  SubSeq(s, first, last)

(***************************************************************************)
(* run_full_pipeline, steps 1 to 3, with discover_all_trends and           *)
(* collect_all_images.                                                     *)
(***************************************************************************)

\* Step 1 with override_topic: the topic is taken from the command line and
\* trends = {"ranked": [{"topic": best_topic, "score": 100}]}.
Step1_Override ==
    /\ pipe_pc = "step1"
    /\ args.override_topic # None
    /\ Start("TrendDiscovery")
    /\ ranked' = <<[topic |-> args.override_topic, score |-> 100]>>
    /\ Finish("TrendDiscovery")
    /\ pipe_pc' = "step2"
    /\ UNCHANGED <<all_trends, ranked_items, bonuses, ranked2, rank_pc>>
    /\ UNCHANGED <<main_vars, ext_vars>>
    /\ UNCHANGED <<args, n_queries, faults, gathered, results, trend_tasks,
                   img_tasks, pub_tasks, await_idx, SCHEDULE_platforms,
                   LOCATION_language>>

\* Step 1 without override_topic: discover_all_trends hands the five connector
\* calls to the executor and awaits asyncio.gather.
Step1_Discover ==
    /\ pipe_pc = "step1"
    /\ args.override_topic = None
    /\ Start("TrendDiscovery")
    /\ trend_tasks' = [src \in Sources |-> "pending"]
    /\ pipe_pc' = "gather_trends"
    /\ UNCHANGED <<rank_vars, main_vars, ext_vars>>
    /\ UNCHANGED <<args, finished, n_queries, faults, gathered, results,
                   img_tasks, pub_tasks, await_idx, SCHEDULE_platforms,
                   LOCATION_language>>

\* A trend connector call returns its list.
TrendSourceReturns(src) ==
    /\ src \in DOMAIN trend_tasks
    /\ trend_tasks[src] = "pending"
    /\ trend_tasks' = [trend_tasks EXCEPT ![src] = "returned"]
    /\ UNCHANGED <<rank_vars, main_vars, ext_vars>>
    /\ UNCHANGED <<args, pipe_pc, started, finished, n_queries, faults,
                   gathered, results, img_tasks, pub_tasks, await_idx,
                   SCHEDULE_platforms, LOCATION_language>>

\* A trend connector call raises; gather keeps the exception as its result.
TrendSourceRaises(src) ==
    /\ src \in DOMAIN trend_tasks
    /\ trend_tasks[src] = "pending"
    /\ trend_tasks' = [trend_tasks EXCEPT ![src] = "raised"]
    /\ faults' = Failed(faults)
    /\ UNCHANGED <<rank_vars, main_vars, ext_vars>>
    /\ UNCHANGED <<args, pipe_pc, started, finished, n_queries, gathered,
                   results, img_tasks, pub_tasks, await_idx,
                   SCHEDULE_platforms, LOCATION_language>>

\* gather returns: exceptions become empty lists, all_trends is built in source
\* order and ranked; the futures go out of scope.
TrendJoin ==
    /\ pipe_pc = "gather_trends"
    /\ BatchDone(trend_tasks)
    /\ gathered' = [gathered EXCEPT !["trends"] = Complete(trend_tasks)]
    /\ all_trends' = [src \in Sources |-> TrendResult(src, trend_tasks[src])]
    /\ ranked' = AnalyzeAndRank(all_trends')
    /\ trend_tasks' = NoTasks
    /\ Finish("TrendDiscovery")
    /\ pipe_pc' = "step2"
    /\ UNCHANGED <<ranked_items, bonuses, ranked2, rank_pc>>
    /\ UNCHANGED <<main_vars, ext_vars>>
    /\ UNCHANGED <<args, started, n_queries, faults, results, img_tasks,
                   pub_tasks, await_idx, SCHEDULE_platforms, LOCATION_language>>

\* Step 2: generate_video_script falls back to the template script on any
\* failure of the model call; save_script writes two files outside any try, so
\* a failing write leaves run_full_pipeline as an exception.
Step2_Script ==
    /\ pipe_pc = "step2"
    /\ Start("ScriptWriting")
    /\ LOCATION_language' = IF args.language = "arabic" THEN "ar"
                            ELSE LOCATION_language
    /\ \E gemini_ok \in BOOLEAN, write_ok \in BOOLEAN, n \in 1..MaxQueries :
          LET f1 == IF gemini_ok THEN faults ELSE Failed(faults)
          IN  /\ n_queries' = n
              /\ IF write_ok
                 THEN /\ faults' = f1
                      /\ Finish("ScriptWriting")
                      /\ pipe_pc' = "step3"
                 ELSE /\ faults' = Failed(f1)
                      /\ finished' = finished
                      /\ Raise
    /\ UNCHANGED <<rank_vars, main_vars, ext_vars>>
    /\ UNCHANGED <<args, gathered, results, trend_tasks, img_tasks, pub_tasks,
                   await_idx, SCHEDULE_platforms>>

\* Step 3: collect_all_images hands four searches per query to its thread pool
\* and awaits asyncio.gather.
Step3_Images ==
    /\ pipe_pc = "step3"
    /\ Start("ImageCollection")
    /\ img_tasks' = [i \in 1..(IMAGE_SOURCES * n_queries) |-> "pending"]
    /\ pipe_pc' = "gather_images"
    /\ UNCHANGED <<rank_vars, main_vars, ext_vars>>
    /\ UNCHANGED <<args, finished, n_queries, faults, gathered, results,
                   trend_tasks, pub_tasks, await_idx, SCHEDULE_platforms,
                   LOCATION_language>>

\* An image search returns its list of paths.
ImageSearchReturns(i) ==
    /\ i \in DOMAIN img_tasks
    /\ img_tasks[i] = "pending"
    /\ img_tasks' = [img_tasks EXCEPT ![i] = "returned"]
    /\ UNCHANGED <<rank_vars, main_vars, ext_vars>>
    /\ UNCHANGED <<args, pipe_pc, started, finished, n_queries, faults,
                   gathered, results, trend_tasks, pub_tasks, await_idx,
                   SCHEDULE_platforms, LOCATION_language>>

\* An image search raises; gather keeps the exception as its result.
ImageSearchRaises(i) ==
    /\ i \in DOMAIN img_tasks
    /\ img_tasks[i] = "pending"
    /\ img_tasks' = [img_tasks EXCEPT ![i] = "raised"]
    /\ faults' = Failed(faults)
    /\ UNCHANGED <<rank_vars, main_vars, ext_vars>>
    /\ UNCHANGED <<args, pipe_pc, started, finished, n_queries, gathered,
                   results, trend_tasks, pub_tasks, await_idx,
                   SCHEDULE_platforms, LOCATION_language>>

\* gather returns: the lists are merged, deduplicated, resized and padded.
\* With no path at all the padding draws placeholders, outside any try;
\* create_thumbnail keeps its own failures to itself.
ImagesJoin ==
    /\ pipe_pc = "gather_images"
    /\ BatchDone(img_tasks)
    /\ gathered' = [gathered EXCEPT !["images"] = Complete(img_tasks)]
    /\ img_tasks' = NoTasks
    /\ \E placeholder_ok \in BOOLEAN, thumbnail_ok \in BOOLEAN :
          LET have_paths == \E i \in DOMAIN img_tasks : img_tasks[i] = "returned"
          IN  IF have_paths \/ placeholder_ok
              THEN /\ faults' = IF thumbnail_ok THEN faults ELSE Failed(faults)
                   /\ Finish("ImageCollection")
                   /\ pipe_pc' = "step4"
              ELSE /\ faults' = Failed(faults)
                   /\ finished' = finished
                   /\ Raise
    /\ UNCHANGED <<rank_vars, main_vars, ext_vars>>
    /\ UNCHANGED <<args, started, n_queries, results, trend_tasks, pub_tasks,
                   await_idx, SCHEDULE_platforms, LOCATION_language>>

(***************************************************************************)
(* run_full_pipeline, steps 4 to 8.                                        *)
(***************************************************************************)

\* A step whose collaborators keep their failures to themselves: each agent
\* call catches its own exceptions and returns a fallback, so the step runs to
\* its end whether or not a collaborator failed.
AbsorbingStep(at, name, next) ==
    /\ pipe_pc = at
    /\ Start(name)
    /\ \E ok \in BOOLEAN : faults' = IF ok THEN faults ELSE Failed(faults)
    /\ Finish(name)
    /\ pipe_pc' = next
    /\ UNCHANGED <<rank_vars, main_vars, ext_vars>>
    /\ UNCHANGED <<args, n_queries, gathered, results, trend_tasks, img_tasks,
                   pub_tasks, await_idx, SCHEDULE_platforms, LOCATION_language>>

\* Step 4: add_text_overlay on every image.
Step4_TextOverlay == AbsorbingStep("step4", "TextOverlay", "step5")

\* Step 5: generate_voice, adjust_audio_speed, add_voice_effects.
Step5_Voiceover == AbsorbingStep("step5", "Voiceover", "step6")

\* Step 6: search_pixabay_music, sync_music_to_video.
Step6_Music == AbsorbingStep("step6", "MusicSourcing", "step7")

\* Step 7: mix_audio.
Step7_Mix == AbsorbingStep("step7", "AudioMix", "step8")

\* Step 8: without moviepy create_image_slideshow returns None and a
\* placeholder file stands in for the video.  With moviepy the overlay, intro,
\* outro and watermark calls and export_video run outside any try: a failure
\* in composing the clip or in encoding it leaves run_full_pipeline as an
\* exception.
Step8_Video ==
    /\ pipe_pc = "step8"
    /\ Start("VideoAssembly")
    /\ \E outcome \in {"exported", "no_moviepy", "compose_raises", "export_raises"} :
          IF outcome \in {"exported", "no_moviepy"}
          THEN /\ faults' = IF outcome = "exported" THEN faults ELSE Failed(faults)
               /\ Finish("VideoAssembly")
               /\ pipe_pc' = "step10"
          ELSE /\ faults' = Failed(faults)
               /\ finished' = finished
               /\ Raise
    /\ UNCHANGED <<rank_vars, main_vars, ext_vars>>
    /\ UNCHANGED <<args, n_queries, gathered, results, trend_tasks, img_tasks,
                   pub_tasks, await_idx, SCHEDULE_platforms, LOCATION_language>>

(***************************************************************************)
(* Step 10 with publish_to_all_platforms and the four publishers.          *)
(***************************************************************************)

\* Captions for every configured platform, whatever the filter.
CaptionKeysUnfiltered ==
    {SCHEDULE_platforms[i] : i \in 1..Len(SCHEDULE_platforms)}

\* The keys of captions: every configured platform, or the filter alone.
CaptionKeys ==
    IF args.platform_filter # ""
    THEN {args.platform_filter}
    ELSE {SCHEDULE_platforms[i] : i \in 1..Len(SCHEDULE_platforms)}

\* The tasks dict of publish_to_all_platforms in insertion order: the known
\* platforms that are in config.SCHEDULE["platforms"].
TaskOrder(platforms) ==
    SelectSeq(PlatformOrder,
              LAMBDA p : \E i \in 1..Len(platforms) : platforms[i] = p)

\* Step 10 with dry_run: results = {p: "dry-run" for p in captions}.
Step10_DryRun ==
    /\ pipe_pc = "step10"
    /\ args.dry_run
    /\ Start("Publish")
    /\ results' = [p \in CaptionKeys |-> DRY_RUN]
    /\ Finish("Publish")
    /\ pipe_pc' = "log"
    /\ UNCHANGED <<rank_vars, main_vars, ext_vars>>
    /\ UNCHANGED <<args, n_queries, faults, gathered, trend_tasks, img_tasks,
                   pub_tasks, await_idx, SCHEDULE_platforms, LOCATION_language>>

\* Step 10 without dry_run: the filter replaces config.SCHEDULE["platforms"]
\* and publish_to_all_platforms hands one publisher call per platform to the
\* executor.
Step10_Publish ==
    /\ pipe_pc = "step10"
    /\ ~args.dry_run
    /\ Start("Publish")
    /\ SCHEDULE_platforms' = IF args.platform_filter # ""
                             THEN <<args.platform_filter>>
                             ELSE SCHEDULE_platforms
    /\ LET order == TaskOrder(SCHEDULE_platforms')
       IN  pub_tasks' = [p \in {order[i] : i \in 1..Len(order)} |->
                            [st |-> "pending", attempt |-> 0, result |-> None]]
    /\ await_idx' = 1
    /\ pipe_pc' = "await_publish"
    /\ UNCHANGED <<rank_vars, main_vars, ext_vars>>
    /\ UNCHANGED <<args, finished, n_queries, faults, gathered, results,
                   trend_tasks, img_tasks, LOCATION_language>>

\* A publisher without its except clause: the failure of an attempt leaves
\* the publisher as an exception.
AfterFailurePropagates(n) == [st |-> "raised", attempt |-> n, result |-> None]

\* except Exception in the retry loop, after attempt number n has failed: the
\* loop goes on to the next attempt (after a sleep) while n < MAX_RETRIES, and
\* falls through to "return None" otherwise.
AfterFailure(n) ==
    IF n < MAX_RETRIES
    THEN [st |-> "pending", attempt |-> n, result |-> None]
    ELSE [st |-> "returned", attempt |-> n, result |-> None]

PublisherUnchanged ==
    /\ UNCHANGED <<rank_vars, main_vars, ext_vars>>
    /\ UNCHANGED <<args, pipe_pc, started, finished, n_queries, gathered,
                   results, trend_tasks, img_tasks, await_idx,
                   SCHEDULE_platforms, LOCATION_language>>

\* publish_to_<platform> finds a credential missing and returns None before
\* its retry loop.
PublisherSkips(p) ==
    /\ p \in DOMAIN pub_tasks
    /\ pub_tasks[p].st = "pending" /\ pub_tasks[p].attempt = 0
    /\ pub_tasks' = [pub_tasks EXCEPT ![p] =
                        [st |-> "returned", attempt |-> 0, result |-> None]]
    /\ faults' = faults
    /\ PublisherUnchanged

\* An attempt of the retry loop goes through: the publisher returns the URL
\* (message id) of its post.
PublisherAttemptSucceeds(p) ==
    /\ p \in DOMAIN pub_tasks
    /\ pub_tasks[p].st = "pending"
    /\ pub_tasks' = [pub_tasks EXCEPT ![p] =
                        [st |-> "returned", attempt |-> @.attempt + 1,
                         result |-> PostRef(p)]]
    /\ faults' = faults
    /\ PublisherUnchanged

\* An attempt of the retry loop fails with an exception.
PublisherAttemptFails(p) ==
    /\ p \in DOMAIN pub_tasks
    /\ pub_tasks[p].st = "pending"
    /\ pub_tasks' = [pub_tasks EXCEPT ![p] = AfterFailure(@.attempt + 1)]
    /\ faults' = IF pub_tasks[p].attempt = 0 THEN Failed(faults) ELSE faults
    /\ PublisherUnchanged

\* The future of a publisher call ends with an exception raised outside the
\* retry loop, before any attempt.
PublisherRaises(p) ==
    /\ p \in DOMAIN pub_tasks
    /\ pub_tasks[p].st = "pending" /\ pub_tasks[p].attempt = 0
    /\ pub_tasks' = [pub_tasks EXCEPT ![p] =
                        [st |-> "raised", attempt |-> 0, result |-> None]]
    /\ faults' = Failed(faults)
    /\ PublisherUnchanged

\* An await loop that stores None whatever the task returned.
AwaitedDropsResult(task) == None

\* results[platform] = await task, or None when the await raises.
Awaited(task) == IF task.st = "returned" THEN task.result ELSE None

\* One round of "for platform, task in tasks.items()": the next task is
\* awaited and its result, or None for an exception, is stored.
AwaitPlatform ==
    /\ pipe_pc = "await_publish"
    /\ await_idx <= Len(TaskOrder(SCHEDULE_platforms))
    /\ LET p == TaskOrder(SCHEDULE_platforms)[await_idx]
       IN  /\ Done(pub_tasks[p].st)
           /\ results' = [q \in DOMAIN results \cup {p} |->
                             IF q = p THEN Awaited(pub_tasks[p]) ELSE results[q]]
    /\ await_idx' = await_idx + 1
    /\ UNCHANGED <<rank_vars, main_vars, ext_vars>>
    /\ UNCHANGED <<args, pipe_pc, started, finished, n_queries, faults,
                   gathered, trend_tasks, img_tasks, pub_tasks,
                   SCHEDULE_platforms, LOCATION_language>>

\* publish_to_all_platforms returns results; run_full_pipeline restores
\* config.SCHEDULE["platforms"] and step 10 is over.
PublishReturn ==
    /\ pipe_pc = "await_publish"
    /\ await_idx > Len(TaskOrder(SCHEDULE_platforms))
    /\ gathered' = [gathered EXCEPT !["publish"] =
                       Complete([p \in DOMAIN pub_tasks |-> pub_tasks[p].st])]
    /\ SCHEDULE_platforms' = CONFIGURED_PLATFORMS
    /\ Finish("Publish")
    /\ pipe_pc' = "log"
    /\ UNCHANGED <<rank_vars, main_vars, ext_vars>>
    /\ UNCHANGED <<args, started, n_queries, faults, results, trend_tasks,
                   img_tasks, pub_tasks, await_idx, LOCATION_language>>

\* log_content keeps a failure of the database to itself; schedule_analytics
\* adds its job outside any try.  Then the "Pipeline Complete" banner.
AnalyticsLog ==
    /\ pipe_pc = "log"
    /\ Start("AnalyticsLog")
    /\ \E log_ok \in BOOLEAN, job_ok \in BOOLEAN :
          LET f1 == IF log_ok THEN faults ELSE Failed(faults)
          IN  /\ content_rows' = log_content(content_rows,
                                             ContentRow(results), log_ok)
              /\ content_logged' = IF log_ok THEN "row" ELSE "failed"
              /\ IF job_ok
                 THEN /\ faults' = f1
                      /\ Finish("AnalyticsLog")
                      /\ pipe_pc' = "Complete"
                 ELSE /\ faults' = Failed(f1)
                      /\ finished' = finished
                      /\ Raise
    /\ UNCHANGED <<rank_vars, ext_vars, main_pc, confirm>>
    /\ UNCHANGED <<args, n_queries, gathered, results, trend_tasks, img_tasks,
                   pub_tasks, await_idx, SCHEDULE_platforms, LOCATION_language>>

(***************************************************************************)
(* main(): the single-video path after run_full_pipeline has returned.     *)
(***************************************************************************)

\* With --preview and without --dry-run, main asks "Publish now? [y/N]";
\* any answer but y (in either case) cancels, y goes on to print the results.
MainConfirm(answer) ==
    /\ main_pc = "pipeline"
    /\ pipe_pc = "Complete"
    /\ args.preview /\ ~args.dry_run
    /\ confirm' = Lower(Strip(answer))
    /\ main_pc' = IF Lower(Strip(answer)) # YES THEN "cancelled" ELSE "printed"
    /\ UNCHANGED <<content_rows, content_logged>>
    /\ UNCHANGED <<rank_vars, pipe_vars, ext_vars>>

\* Without the prompt main prints the results.
MainPrints ==
    /\ main_pc = "pipeline"
    /\ pipe_pc = "Complete"
    /\ ~(args.preview /\ ~args.dry_run)
    /\ main_pc' = "printed"
    /\ UNCHANGED <<content_rows, content_logged, confirm>>
    /\ UNCHANGED <<rank_vars, pipe_vars, ext_vars>>

(***************************************************************************)
(* Spec: one run of main() with run_full_pipeline, from every choice of    *)
(* arguments.                                                              *)
(***************************************************************************)

\* The ranker variables of a pipeline run before its trend step.
RankIdle ==
    /\ all_trends = [src \in Sources |-> <<>>]
    /\ ranked_items = <<>>
    /\ bonuses = <<>>
    /\ ranked = <<>>
    /\ ranked2 = <<>>
    /\ rank_pc = "input"

\* The pipeline variables at the given position, before step 1.
PipeAt(pc, a) ==
    /\ args = a
    /\ pipe_pc = pc
    /\ started = <<>>
    /\ finished = <<>>
    /\ n_queries = 0
    /\ faults = 0
    /\ gathered = [b \in {"trends", "images", "publish"} |-> -1]
    /\ results = NoTasks
    /\ trend_tasks = NoTasks
    /\ img_tasks = NoTasks
    /\ pub_tasks = NoTasks
    /\ await_idx = 0
    /\ SCHEDULE_platforms = CONFIGURED_PLATFORMS
    /\ LOCATION_language = "en"
    /\ content_rows = <<EarlierRow>>
    /\ content_logged = "no"
    /\ main_pc = "pipeline"
    /\ confirm = <<>>

Init ==
    /\ RankIdle
    /\ ExtIdle
    /\ \E a \in RunArgs : PipeAt("step1", a)

Next ==
    \/ Step1_Override
    \/ Step1_Discover
    \/ \E src \in Sources : TrendSourceReturns(src)
    \/ \E src \in Sources : TrendSourceRaises(src)
    \/ TrendJoin
    \/ Step2_Script
    \/ Step3_Images
    \/ \E i \in 1..(IMAGE_SOURCES * MaxQueries) : ImageSearchReturns(i)
    \/ \E i \in 1..(IMAGE_SOURCES * MaxQueries) : ImageSearchRaises(i)
    \/ ImagesJoin
    \/ Step4_TextOverlay
    \/ Step5_Voiceover
    \/ Step6_Music
    \/ Step7_Mix
    \/ Step8_Video
    \/ Step10_DryRun
    \/ Step10_Publish
    \/ \E p \in Platforms : PublisherSkips(p)
    \/ \E p \in Platforms : PublisherAttemptSucceeds(p)
    \/ \E p \in Platforms : PublisherAttemptFails(p)
    \/ \E p \in Platforms : PublisherRaises(p)
    \/ AwaitPlatform
    \/ PublishReturn
    \/ AnalyticsLog
    \/ \E answer \in Answers : MainConfirm(answer)
    \/ MainPrints

Spec == Init /\ [][Next]_vars

(***************************************************************************)
(* SpecRank: the ranker applied to every bounded input.                    *)
(***************************************************************************)
RankInit ==
    /\ PipeAt("idle", IdleArgs)
    /\ ExtIdle
    /\ all_trends \in RankInputs
    /\ ranked_items = <<>>
    /\ bonuses = <<>>
    /\ ranked = <<>>
    /\ ranked2 = <<>>
    /\ rank_pc = "input"

\* The call analyze_and_rank_trends(all_trends).
Rank ==
    /\ rank_pc = "input"
    /\ ranked_items' = RankedItems(Flatten(all_trends))
    /\ bonuses' = Bonuses(Flatten(all_trends))
    /\ ranked' = AnalyzeAndRank(all_trends)
    /\ rank_pc' = "ranked"
    /\ UNCHANGED <<all_trends, ranked2>>
    /\ UNCHANGED <<pipe_vars, main_vars, ext_vars>>

\* A second call on the same argument.
RankAgain ==
    /\ rank_pc = "ranked"
    /\ ranked2' = AnalyzeAndRank(all_trends)
    /\ rank_pc' = "reranked"
    /\ UNCHANGED <<all_trends, ranked_items, bonuses, ranked>>
    /\ UNCHANGED <<pipe_vars, main_vars, ext_vars>>

RankNext == Rank \/ RankAgain

SpecRank == RankInit /\ [][RankNext]_vars

(***************************************************************************)
(* SpecScores: analyze_and_rank_trends on candidates whose score field is  *)
(* a number, missing or empty.                                             *)
(***************************************************************************)
ScoresInit ==
    /\ PipeAt("idle", IdleArgs)
    /\ ExtIdle
    /\ all_trends \in ScoreInputs
    /\ ranked_items = <<>>
    /\ bonuses = <<>>
    /\ ranked = <<>>
    /\ ranked2 = <<>>
    /\ rank_pc = "input"

\* The call analyze_and_rank_trends(all_trends): it returns the ranking or
\* leaves with the TypeError of its first loop.
RankScored ==
    /\ rank_pc = "input"
    /\ IF ScoreRaises(Flatten(all_trends))
       THEN /\ rank_pc' = "raised"
            /\ UNCHANGED <<ranked_items, bonuses, ranked>>
       ELSE /\ ranked_items' = RankedItems(Flatten(all_trends))
            /\ bonuses' = Bonuses(Flatten(all_trends))
            /\ ranked' = AnalyzeAndRank(all_trends)
            /\ rank_pc' = "ranked"
    /\ UNCHANGED <<all_trends, ranked2>>
    /\ UNCHANGED <<pipe_vars, main_vars, ext_vars>>

ScoresNext == RankScored

SpecScores == ScoresInit /\ [][ScoresNext]_vars

(***************************************************************************)
(* SpecDedup: deduplicate_files applied twice to every bounded list, on    *)
(* every bounded file system.                                              *)
(***************************************************************************)
DedupInit ==
    /\ RankIdle
    /\ OverlayIdle
    /\ MusicIdle
    /\ VoiceIdle
    /\ PubIdle
    /\ SchedIdle
    /\ PipeAt("idle", IdleArgs)
    /\ QueueIdle
    /\ PerfIdle
    /\ ImageIdle
    /\ ConnIdle
    /\ ScriptIdle
    /\ dd_fs \in [FilePaths -> FileContents]
    /\ dd_paths \in SeqsUpTo(FilePaths, MaxPaths)
    /\ dd_once = <<>>
    /\ dd_twice = <<>>
    /\ dd_touched = FALSE
    /\ dd_pc = "input"

\* The call deduplicate_files(dd_paths).
DedupOnce ==
    /\ dd_pc = "input"
    /\ dd_once' = deduplicate_files(dd_fs, dd_paths)
    /\ dd_pc' = "once"
    /\ UNCHANGED <<dd_fs, dd_paths, dd_twice, dd_touched>>
    /\ UNCHANGED dedup_frame

\* Between the calls a file is rewritten, removed or made readable.
FileChanges(p, c) ==
    /\ dd_pc = "once"
    /\ ~dd_touched
    /\ dd_fs[p] # c
    /\ dd_fs' = [dd_fs EXCEPT ![p] = c]
    /\ dd_touched' = TRUE
    /\ UNCHANGED <<dd_paths, dd_once, dd_twice, dd_pc>>
    /\ UNCHANGED dedup_frame

\* The call deduplicate_files on the list the first call returned.
DedupTwice ==
    /\ dd_pc = "once"
    /\ dd_twice' = deduplicate_files(dd_fs, dd_once)
    /\ dd_pc' = "twice"
    /\ UNCHANGED <<dd_fs, dd_paths, dd_once, dd_touched>>
    /\ UNCHANGED dedup_frame

DedupNext ==
    \/ DedupOnce
    \/ \E p \in FilePaths, c \in FileContents : FileChanges(p, c)
    \/ DedupTwice

SpecDedup == DedupInit /\ [][DedupNext]_vars

(***************************************************************************)
(* SpecQueue: scheduling calls on the queue file, with every payload,      *)
(* time and platform of the bounded sets.                                  *)
(***************************************************************************)
QueueInit ==
    /\ RankIdle
    /\ OverlayIdle
    /\ MusicIdle
    /\ VoiceIdle
    /\ PubIdle
    /\ SchedIdle
    /\ PipeAt("idle", IdleArgs)
    /\ DedupIdle
    /\ QueueIdle
    /\ PerfIdle
    /\ ImageIdle
    /\ ConnIdle
    /\ ScriptIdle

\* A call schedule_post(platform, content, publish_time).
SchedulePost(platform, content, publish_time) ==
    LET r == schedule_post(q_file, platform, content, publish_time)
    IN  /\ q_calls < MaxCalls
        /\ q_file' = r.file
        /\ q_call' = [op |-> "schedule_post", platform |-> platform,
                      content |-> content, time |-> publish_time]
        /\ q_ret' = [value |-> r.value, raised |-> r.raised]
        /\ q_calls' = q_calls + 1
        /\ UNCHANGED queue_frame

\* A call publish_to_all_platforms(video_path, content_data, schedule_time)
\* with a schedule_time: it returns what _schedule_all returns.
PublishScheduled(content_data, schedule_time) ==
    LET r == schedule_all(q_file, SCHEDULE_platforms, content_data,
                          schedule_time)
    IN  /\ q_calls < MaxCalls
        /\ q_file' = r.file
        /\ q_call' = [op |-> "publish_to_all_platforms", platform |-> "",
                      content |-> content_data, time |-> schedule_time]
        /\ q_ret' = [value |-> r.value, raised |-> r.raised]
        /\ q_calls' = q_calls + 1
        /\ UNCHANGED queue_frame

\* The queue file is damaged from outside the program: it no longer parses.
QueueFileDamaged ==
    /\ q_file[1] = "json"
    /\ q_file' = FileDamaged
    /\ UNCHANGED <<q_call, q_ret, q_calls>>
    /\ UNCHANGED queue_frame

QueueNext ==
    \/ \E p \in Platforms, c \in Contents, t \in PublishTimes :
            SchedulePost(p, c, t)
    \/ \E c \in Contents, t \in PublishTimes : PublishScheduled(c, t)
    \/ QueueFileDamaged

SpecQueue == QueueInit /\ [][QueueNext]_vars

(***************************************************************************)
(* SpecPerf: store_metrics calls on the performance table as days pass.    *)
(***************************************************************************)
PerfInit ==
    /\ RankIdle
    /\ OverlayIdle
    /\ MusicIdle
    /\ VoiceIdle
    /\ PubIdle
    /\ SchedIdle
    /\ PipeAt("idle", IdleArgs)
    /\ DedupIdle
    /\ QueueIdle
    /\ PerfIdle
    /\ ImageIdle
    /\ ConnIdle
    /\ ScriptIdle

\* A call store_metrics(platform, post_id, metrics) with the default topic.
\* db_ok = FALSE: sqlite3 raises (database locked, disk full); the function
\* logs the error and returns False.
StoreMetrics(platform, post_id, metrics, db_ok) ==
    /\ perf_calls < MaxStores
    /\ perf_prev' = perf_rows
    /\ IF db_ok
       THEN /\ perf_rows' = InsertOrReplace(perf_rows, perf_next_id, platform,
                                            post_id, perf_now, metrics, "")
            /\ perf_next_id' = perf_next_id + 1
       ELSE UNCHANGED <<perf_rows, perf_next_id>>
    /\ perf_call' = [platform |-> platform, post_id |-> post_id,
                     metrics |-> metrics, date |-> DateOf(perf_now),
                     returned |-> db_ok]
    /\ perf_calls' = perf_calls + 1
    /\ UNCHANGED perf_now
    /\ UNCHANGED perf_frame

\* Time passes between two calls.
ClockTicks ==
    /\ perf_now < MaxClock
    /\ perf_now' = perf_now + 1
    /\ UNCHANGED <<perf_rows, perf_next_id, perf_prev, perf_call, perf_calls>>
    /\ UNCHANGED perf_frame

PerfNext ==
    \/ \E p \in MetricPlatforms, i \in PostIds, m \in MetricValues,
          ok \in BOOLEAN : StoreMetrics(p, i, m, ok)
    \/ ClockTicks

SpecPerf == PerfInit /\ [][PerfNext]_vars

(***************************************************************************)
(* SpecImages: collect_all_images with every bounded outcome of its        *)
(* searches, on the bounded file systems.                                  *)
(***************************************************************************)
ImageInit ==
    /\ RankIdle
    /\ OverlayIdle
    /\ MusicIdle
    /\ VoiceIdle
    /\ PubIdle
    /\ SchedIdle
    /\ PipeAt("idle", IdleArgs)
    /\ DedupIdle
    /\ QueueIdle
    /\ PerfIdle
    /\ ConnIdle
    /\ ScriptIdle
    /\ im_fs \in ImageFileSystems
    /\ im_needed \in 1..MaxNeeded
    /\ im_futures = 0
    /\ im_all_paths = <<>>
    /\ im_deduped = <<>>
    /\ im_out = <<>>
    /\ im_pc = "gather"

\* A search future ends with a list: all_paths.extend(result).
SearchReturns(reply) ==
    /\ im_pc = "gather"
    /\ im_futures < MaxFutures
    /\ im_futures' = im_futures + 1
    /\ im_all_paths' = im_all_paths \o reply
    /\ UNCHANGED <<im_fs, im_needed, im_deduped, im_out, im_pc>>
    /\ UNCHANGED image_frame

\* A search future ends with an exception: gather hands the exception over
\* and the loop passes it by.
SearchRaises ==
    /\ im_pc = "gather"
    /\ im_futures < MaxFutures
    /\ im_futures' = im_futures + 1
    /\ UNCHANGED <<im_fs, im_needed, im_all_paths, im_deduped, im_out, im_pc>>
    /\ UNCHANGED image_frame

\* The code after the gather.  extra is what the search on the location
\* name hands back, bad the files that cannot be resized.
CollectAfterGather(extra, bad, placeholder_ok) ==
    LET paths == DedupedPaths(im_fs, im_all_paths, im_needed, extra)
        resized == ResizeAll(Prefix(paths, im_needed), bad)
        padded == PadLoop(resized, im_needed, placeholder_ok)
    IN  /\ im_pc = "gather"
        /\ im_deduped' = paths
        /\ im_out' = Prefix(padded.list, im_needed)
        /\ im_pc' = IF padded.raised THEN "raised" ELSE "returned"
        /\ UNCHANGED <<im_fs, im_needed, im_futures, im_all_paths>>
        /\ UNCHANGED image_frame

ImageNext ==
    \/ \E reply \in SearchReplies : SearchReturns(reply)
    \/ SearchRaises
    \/ \E extra \in ExtraReplies, bad \in SUBSET FilePaths,
          placeholder_ok \in BOOLEAN :
            CollectAfterGather(extra, bad, placeholder_ok)

SpecImages == ImageInit /\ [][ImageNext]_vars

(***************************************************************************)
(* SpecConn: the connectors of one step, each called once, with every      *)
(* choice of configured credentials.                                       *)
(***************************************************************************)
ConnInit ==
    /\ RankIdle
    /\ OverlayIdle
    /\ MusicIdle
    /\ VoiceIdle
    /\ PubIdle
    /\ SchedIdle
    /\ PipeAt("idle", IdleArgs)
    /\ DedupIdle
    /\ QueueIdle
    /\ PerfIdle
    /\ ImageIdle
    /\ ScriptIdle
    /\ cn_step \in {"trends", "images", "publish"}
    /\ cn_creds \in SUBSET (ConnectorSet(cn_step) \cap NeedsCredential)
    /\ cn_done = <<>>
    /\ cn_out = <<>>
    /\ cn_pc = "calls"

\* The call of connector c ends.
ConnectorReturns(c, first_ok, second_ok) ==
    /\ cn_pc = "calls"
    /\ c \in ConnectorSet(cn_step)
    /\ c \notin DOMAIN cn_done
    /\ cn_done' = Put(cn_done, c,
                      ConnectorRun(c, c \notin NeedsCredential \/ c \in cn_creds,
                                   first_ok, second_ok))
    /\ UNCHANGED <<cn_step, cn_creds, cn_out, cn_pc>>
    /\ UNCHANGED conn_frame

\* Every connector of the step has ended: the step goes on with what they
\* returned.
StepJoin ==
    /\ cn_pc = "calls"
    /\ DOMAIN cn_done = ConnectorSet(cn_step)
    /\ cn_out' = StepOutput(cn_step, cn_done, StepConnectors(cn_step))
    /\ cn_pc' = "joined"
    /\ UNCHANGED <<cn_step, cn_creds, cn_done>>
    /\ UNCHANGED conn_frame

ConnNext ==
    \/ \E c \in ConnectorSet(cn_step), first_ok \in BOOLEAN,
          second_ok \in BOOLEAN : ConnectorReturns(c, first_ok, second_ok)
    \/ StepJoin

SpecConn == ConnInit /\ [][ConnNext]_vars

(***************************************************************************)
(* SpecScript: one call of generate_video_script for every outcome of the  *)
(* Gemini call.                                                            *)
(***************************************************************************)
ScriptInit ==
    /\ RankIdle
    /\ OverlayIdle
    /\ MusicIdle
    /\ VoiceIdle
    /\ PubIdle
    /\ SchedIdle
    /\ PipeAt("idle", IdleArgs)
    /\ DedupIdle
    /\ QueueIdle
    /\ PerfIdle
    /\ ImageIdle
    /\ ConnIdle
    /\ sc_api \in ApiOutcomes
    /\ sc_topic \in {"Tunis beaches", "the old port"}
    /\ sc_style \in {"top 5 hidden gems", "day in the life", "best food spots"}
    /\ sc_ret = ScriptOf({}, 0, "")
    /\ sc_pc = "call"

\* The call generate_video_script(trend_topic, LOCATION, style).
GenerateVideoScript ==
    /\ sc_pc = "call"
    /\ sc_ret' = generate_video_script(sc_api, sc_topic, LOCATION_name, sc_style)
    /\ sc_pc' = "returned"
    /\ UNCHANGED <<sc_api, sc_topic, sc_style>>
    /\ UNCHANGED script_frame

ScriptNext == GenerateVideoScript

SpecScript == ScriptInit /\ [][ScriptNext]_vars

(***************************************************************************)
(* SpecSched: python main.py --schedule, the pipeline job firing on the    *)
(* event loop, and an interrupt while run_scheduled sleeps.                *)
(***************************************************************************)
SchedInit ==
    /\ RankIdle
    /\ OverlayIdle
    /\ MusicIdle
    /\ VoiceIdle
    /\ PubIdle
    /\ PipeAt("idle", IdleArgs)
    /\ DedupIdle
    /\ QueueIdle
    /\ PerfIdle
    /\ ImageIdle
    /\ ConnIdle
    /\ ScriptIdle
    /\ sd_main = "start"
    /\ sd_running = FALSE
    /\ sd_loop = "running"
    /\ sd_task = "none"
    /\ sd_step = 0
    /\ sd_fired = 0
    /\ sd_interrupted = FALSE
    /\ sd_now \in 0..1
    /\ sd_store = {}
    /\ sd_pending = <<>>
    /\ sd_calls = <<>>

\* run_scheduled up to its loop: scheduler.start() and the three
\* registrations (replace_existing=True, fixed ids).
RunScheduledStarts ==
    /\ sd_main = "start"
    /\ sd_running' = TRUE
    /\ sd_store' = sd_store \cup {<<"pipeline", 0>>, <<"trend_discovery", 0>>,
                                  <<"weekly_cleanup", 0>>}
    /\ sd_main' = "sleeping"
    /\ UNCHANGED <<sd_loop, sd_task, sd_step, sd_fired, sd_interrupted,
                   sd_now, sd_pending, sd_calls>>
    /\ UNCHANGED sched_frame

\* while True: await asyncio.sleep(60), the clock moving on.
SleepReturns ==
    /\ sd_main = "sleeping"
    /\ sd_loop = "running"
    /\ sd_now < MaxSeconds
    /\ sd_now' = sd_now + 1
    /\ UNCHANGED <<sd_main, sd_running, sd_loop, sd_task, sd_step, sd_fired,
                   sd_interrupted, sd_store, sd_pending, sd_calls>>
    /\ UNCHANGED sched_frame

\* A cron trigger fires the pipeline job:
\* lambda: asyncio.create_task(run_full_pipeline()).
PipelineJobFires(outcome) ==
    /\ sd_running
    /\ sd_loop = "running"
    /\ sd_main = "sleeping"
    /\ sd_task \in {"none", "done"}
    /\ sd_fired < MaxFires
    /\ sd_fired' = sd_fired + 1
    /\ sd_task' = IF outcome = "task" THEN "running" ELSE sd_task
    /\ sd_step' = IF outcome = "task" THEN 0 ELSE sd_step
    /\ UNCHANGED <<sd_main, sd_running, sd_loop, sd_interrupted, sd_now,
                   sd_store, sd_pending, sd_calls>>
    /\ UNCHANGED sched_frame

\* The pipeline task gets past one of its awaits; past the last one it runs
\* to its return.
PipelineAwaitReturns ==
    /\ sd_task = "running"
    /\ sd_loop = "running"
    /\ sd_main = "sleeping"
    /\ sd_step' = sd_step + 1
    /\ sd_task' = IF sd_step + 1 = PIPELINE_AWAITS THEN "done" ELSE "running"
    /\ UNCHANGED <<sd_main, sd_running, sd_loop, sd_fired, sd_interrupted,
                   sd_now, sd_store, sd_pending, sd_calls>>
    /\ UNCHANGED sched_frame

\* Ctrl-C while run_scheduled sleeps.
Interrupt(place) ==
    /\ sd_main = "sleeping"
    /\ sd_loop = "running"
    /\ sd_interrupted' = TRUE
    /\ sd_main' = IF place = "coroutine" THEN "handler" ELSE "cancelled"
    /\ UNCHANGED <<sd_running, sd_loop, sd_task, sd_step, sd_fired, sd_now,
                   sd_store, sd_pending, sd_calls>>
    /\ UNCHANGED sched_frame

\* except (KeyboardInterrupt, SystemExit): scheduler.shutdown(); then
\* run_scheduled and main return.
HandlerShutsDown ==
    /\ sd_main = "handler"
    /\ sd_running' = shutdown(sd_running)
    /\ sd_main' = "returned"
    /\ UNCHANGED <<sd_loop, sd_task, sd_step, sd_fired, sd_interrupted,
                   sd_now, sd_store, sd_pending, sd_calls>>
    /\ UNCHANGED sched_frame

\* asyncio.run(main()) ends: the remaining tasks are cancelled and the loop
\* is closed.
RunnerCloses ==
    /\ sd_main \in {"returned", "cancelled"}
    /\ sd_loop = "running"
    /\ sd_task' = CancelRemaining(sd_task)
    /\ sd_loop' = "closed"
    /\ UNCHANGED <<sd_main, sd_running, sd_step, sd_fired, sd_interrupted,
                   sd_now, sd_store, sd_pending, sd_calls>>
    /\ UNCHANGED sched_frame

SchedNext ==
    \/ RunScheduledStarts
    \/ SleepReturns
    \/ \E outcome \in FireOutcomes : PipelineJobFires(outcome)
    \/ PipelineAwaitReturns
    \/ \E place \in InterruptPlaces : Interrupt(place)
    \/ HandlerShutsDown
    \/ RunnerCloses

SpecSched == SchedInit /\ [][SchedNext]_vars

(***************************************************************************)
(* SpecJobs: pipeline runs of one process reaching schedule_analytics, in  *)
(* scheduled mode (scheduler running) and in batch mode (never started).   *)
(***************************************************************************)
JobsInit ==
    /\ RankIdle
    /\ OverlayIdle
    /\ MusicIdle
    /\ VoiceIdle
    /\ PubIdle
    /\ PipeAt("idle", IdleArgs)
    /\ DedupIdle
    /\ QueueIdle
    /\ PerfIdle
    /\ ImageIdle
    /\ ConnIdle
    /\ ScriptIdle
    /\ sd_main \in {"sleeping", "batch"}
    /\ sd_running = (sd_main = "sleeping")
    /\ sd_loop = "running"
    /\ sd_task = "none"
    /\ sd_step = 0
    /\ sd_fired = 0
    /\ sd_interrupted = FALSE
    /\ sd_now = 0
    /\ sd_store = {}
    /\ sd_pending = <<>>
    /\ sd_calls = <<>>

\* A run gets to scheduler.schedule_analytics(fetch_all_analytics, results).
ScheduleAnalytics ==
    /\ Len(sd_calls) < MaxRuns
    /\ LET job_id == AnalyticsJobId(sd_now + DAY)
           added == add_job(sd_store, sd_pending, sd_running, job_id)
       IN  /\ sd_store' = added.store
           /\ sd_pending' = added.pending
           /\ sd_calls' = Append(sd_calls, [job_id |-> job_id,
                                             outcome |-> added.outcome])
    /\ UNCHANGED <<sd_main, sd_running, sd_loop, sd_task, sd_step, sd_fired,
                   sd_interrupted, sd_now>>
    /\ UNCHANGED sched_frame

\* The clock moves on to the next second.
SecondPasses ==
    /\ sd_now < MaxSeconds
    /\ sd_now' = sd_now + 1
    /\ UNCHANGED <<sd_main, sd_running, sd_loop, sd_task, sd_step, sd_fired,
                   sd_interrupted, sd_store, sd_pending, sd_calls>>
    /\ UNCHANGED sched_frame

JobsNext == ScheduleAnalytics \/ SecondPasses

SpecJobs == JobsInit /\ [][JobsNext]_vars

(***************************************************************************)
(* SpecPub: one call of publish_to_youtube, publish_to_instagram,          *)
(* publish_to_facebook or publish_to_telegram, request by request.         *)
(***************************************************************************)
PubInit ==
    /\ RankIdle
    /\ OverlayIdle
    /\ MusicIdle
    /\ VoiceIdle
    /\ PipeAt("idle", IdleArgs)
    /\ DedupIdle
    /\ QueueIdle
    /\ PerfIdle
    /\ ImageIdle
    /\ ConnIdle
    /\ ScriptIdle
    /\ SchedIdle
    /\ pb_platform \in {PublishConnectors[i] : i \in 1..Len(PublishConnectors)}
    /\ pb_thumb \in BOOLEAN
    /\ pb_creds \in BOOLEAN
    /\ pb_attempt = 0
    /\ pb_request = 0
    /\ pb_failed = 0
    /\ pb_waits = <<>>
    /\ pb_uploads = 0
    /\ pb_ret = "None"
    /\ pb_pc = "call"
    /\ ig_now = 0
    /\ ig_deadline = 0
    /\ ig_started = <<>>
    /\ ig_report = "none"
    /\ ig_pc = "idle"

\* The credential test: return None without them, else the first attempt.
PublisherEnters ==
    /\ pb_pc = "call"
    /\ IF pb_creds
       THEN /\ pb_pc' = "attempt"
            /\ pb_attempt' = 1
            /\ pb_request' = 1
       ELSE /\ pb_pc' = "returned"
            /\ UNCHANGED <<pb_attempt, pb_request>>
    /\ UNCHANGED <<pb_platform, pb_thumb, pb_creds, pb_failed, pb_waits,
                   pb_uploads, pb_ret, ig_now, ig_deadline, ig_started, ig_report,
                   ig_pc>>
    /\ UNCHANGED pubcall_frame

\* The current request of the attempt goes through: the next request of the
\* attempt follows, or the URL (message id) is returned after the last one.
RequestSucceeds ==
    /\ pb_pc = "attempt"
    /\ LET requests == AttemptRequests(pb_platform, pb_thumb)
       IN  /\ pb_uploads' = IF pb_request = 1 THEN pb_uploads + 1 ELSE pb_uploads
           /\ IF pb_request = Len(requests)
              THEN /\ pb_pc' = "returned"
                   /\ pb_ret' = "url"
                   /\ UNCHANGED pb_request
              ELSE /\ pb_request' = pb_request + 1
                   /\ UNCHANGED <<pb_pc, pb_ret>>
    /\ UNCHANGED <<pb_platform, pb_thumb, pb_creds, pb_attempt, pb_failed,
                   pb_waits, ig_now, ig_deadline, ig_started, ig_report,
                   ig_pc>>
    /\ UNCHANGED pubcall_frame

\* The current request raises: the except clause logs, sleeps if attempts
\* are left, and the loop goes on to the next attempt or ends with None.
RequestFails ==
    /\ pb_pc = "attempt"
    /\ pb_failed' = pb_failed + 1
    /\ pb_waits' = AfterFailedAttempt(pb_waits, pb_attempt)
    /\ IF pb_attempt < MAX_RETRIES
       THEN /\ pb_attempt' = pb_attempt + 1
            /\ pb_request' = 1
            /\ UNCHANGED pb_pc
       ELSE /\ pb_pc' = "returned"
            /\ UNCHANGED <<pb_attempt, pb_request>>
    /\ UNCHANGED <<pb_platform, pb_thumb, pb_creds, pb_uploads, pb_ret,
                   ig_now, ig_deadline, ig_started, ig_report,
                   ig_pc>>
    /\ UNCHANGED pubcall_frame

PubNext == PublisherEnters \/ RequestSucceeds \/ RequestFails

SpecPub == PubInit /\ [][PubNext]_vars

(***************************************************************************)
(* SpecVoice: a sequence of generate_voice calls of one agent on one usage *)
(* file.                                                                   *)
(***************************************************************************)
VoiceInit ==
    /\ RankIdle
    /\ OverlayIdle
    /\ MusicIdle
    /\ PipeAt("idle", IdleArgs)
    /\ DedupIdle
    /\ QueueIdle
    /\ PerfIdle
    /\ ImageIdle
    /\ ConnIdle
    /\ ScriptIdle
    /\ SchedIdle
    /\ PubIdle
    /\ vo_file \in {<<>>, <<9000>>}
    /\ vo_client \in BOOLEAN
    /\ vo_prev = vo_file
    /\ vo_last = NoVoiceCall
    /\ vo_calls = 0

\* await voice_agent.generate_voice(script_text).  The usage file can be
\* misread only when it exists; the API and the write of the counter each
\* succeed or raise.
GenerateVoice(length, misread, api_ok, write_ok) ==
    /\ vo_calls < MaxVoiceCalls
    /\ misread => vo_file # <<>>
    /\ LET r == generate_voice(vo_file, vo_client, length, misread, api_ok,
                               write_ok)
       IN  /\ vo_file' = r.file
           /\ vo_last' = [length |-> length, misread |-> misread,
                          api_ok |-> api_ok, used |-> r.used,
                          api_called |-> r.api_called, ret |-> r.ret]
    /\ vo_prev' = vo_file
    /\ vo_calls' = vo_calls + 1
    /\ UNCHANGED vo_client
    /\ UNCHANGED voice_frame

VoiceNext ==
    \E length \in TextLengths, misread, api_ok, write_ok \in BOOLEAN :
        GenerateVoice(length, misread, api_ok, write_ok)

SpecVoice == VoiceInit /\ [][VoiceNext]_vars

(***************************************************************************)
(* SpecMusic: one call of search_pixabay_music, request by request.        *)
(***************************************************************************)
MusicInit ==
    /\ RankIdle
    /\ OverlayIdle
    /\ PipeAt("idle", IdleArgs)
    /\ DedupIdle
    /\ QueueIdle
    /\ PerfIdle
    /\ ImageIdle
    /\ ConnIdle
    /\ ScriptIdle
    /\ SchedIdle
    /\ PubIdle
    /\ VoiceIdle
    /\ mu_key \in BOOLEAN
    /\ mu_args \in {<<mood, genre>> : mood \in Moods, genre \in Genres}
    /\ mu_queries = <<>>
    /\ mu_depth = 0
    /\ mu_ret = "none"
    /\ mu_pc = "call"

\* The outermost call: generated music without the API key, else the first
\* search request is sent.
MusicEnters ==
    /\ mu_pc = "call"
    /\ IF mu_key
       THEN /\ mu_pc' = "request"
            /\ mu_depth' = 1
            /\ mu_queries' = <<MusicQuery(mu_args[1], mu_args[2])>>
            /\ UNCHANGED mu_ret
       ELSE /\ mu_pc' = "returned"
            /\ mu_ret' = "generated"
            /\ UNCHANGED <<mu_depth, mu_queries>>
    /\ UNCHANGED <<mu_key, mu_args>>
    /\ UNCHANGED music_frame

\* The request of the innermost call ends.  Without hits the call awaits
\* search_pixabay_music(mood="ambient", genre="background"), which sends its
\* own request; when Python refuses the new frame, the RecursionError is
\* caught by except Exception and music is generated.  Every other outcome
\* makes the innermost call return, and each caller returns what it awaited.
MusicRequestEnds(outcome) ==
    /\ mu_pc = "request"
    /\ IF outcome = "no_hits" /\ mu_depth < RecursionCap
       THEN /\ mu_depth' = mu_depth + 1
            /\ mu_queries' = Append(mu_queries, MusicQuery("ambient", "background"))
            /\ UNCHANGED <<mu_pc, mu_ret>>
       ELSE /\ mu_pc' = "returned"
            /\ mu_ret' = MusicAfter(outcome)
            /\ UNCHANGED <<mu_depth, mu_queries>>
    /\ UNCHANGED <<mu_key, mu_args>>
    /\ UNCHANGED music_frame

MusicNext ==
    \/ MusicEnters
    \/ \E outcome \in SearchOutcomes : MusicRequestEnds(outcome)

SpecMusic == MusicInit /\ [][MusicNext]_vars

(***************************************************************************)
(* SpecOverlay: step 4 of run_full_pipeline, image by image, and the       *)
(* slideshow that step 8 builds from its output.                           *)
(***************************************************************************)
OverlayInit ==
    /\ RankIdle
    /\ PipeAt("idle", IdleArgs)
    /\ DedupIdle
    /\ QueueIdle
    /\ PerfIdle
    /\ ImageIdle
    /\ ConnIdle
    /\ ScriptIdle
    /\ SchedIdle
    /\ PubIdle
    /\ VoiceIdle
    /\ MusicIdle
    /\ ov_texts \in ScriptTexts
    /\ ov_unreadable \in UnreadableSets
    /\ ov_pairs = <<>>
    /\ ov_out = <<>>
    /\ ov_clips = -1
    /\ ov_pc = "step4"

\* transition_texts is read from the script and the loop over
\* zip(images, transition_texts) is set up with an empty images_with_text.
OverlayEnters ==
    /\ ov_pc = "step4"
    /\ ov_pairs' = zip(CollectedImages, transition_texts(ov_texts, CollectedImages))
    /\ ov_out' = <<>>
    /\ ov_pc' = "loop"
    /\ UNCHANGED <<ov_texts, ov_unreadable, ov_clips>>
    /\ UNCHANGED overlay_frame

\* One iteration of the loop: the next pair is overlaid and appended.
OverlayIteration ==
    /\ ov_pc = "loop"
    /\ ov_pairs # <<>>
    /\ ov_out' = Append(ov_out,
                        add_text_overlay(Head(ov_pairs)[1], Head(ov_pairs)[2],
                                         ov_unreadable))
    /\ ov_pairs' = Tail(ov_pairs)
    /\ UNCHANGED <<ov_texts, ov_unreadable, ov_clips, ov_pc>>
    /\ UNCHANGED overlay_frame

\* The loop is exhausted; step 8 calls create_image_slideshow with
\* images_with_text, which makes one clip per entry.
SlideshowBuilt ==
    /\ ov_pc = "loop"
    /\ ov_pairs = <<>>
    /\ ov_clips' = Len(ov_out)
    /\ ov_pc' = "step8"
    /\ UNCHANGED <<ov_texts, ov_unreadable, ov_pairs, ov_out>>
    /\ UNCHANGED overlay_frame

OverlayNext ==
    \/ OverlayEnters
    \/ OverlayIteration
    \/ SlideshowBuilt

SpecOverlay == OverlayInit /\ [][OverlayNext]_vars

(***************************************************************************)
(* SpecIg: one call of _wait_for_ig_processing, with the clock in seconds. *)
(***************************************************************************)
IgInit ==
    /\ RankIdle
    /\ OverlayIdle
    /\ MusicIdle
    /\ VoiceIdle
    /\ PipeAt("idle", IdleArgs)
    /\ DedupIdle
    /\ QueueIdle
    /\ PerfIdle
    /\ ImageIdle
    /\ ConnIdle
    /\ ScriptIdle
    /\ SchedIdle
    /\ pb_platform = ""
    /\ pb_thumb = FALSE
    /\ pb_creds = FALSE
    /\ pb_attempt = 0
    /\ pb_request = 0
    /\ pb_failed = 0
    /\ pb_waits = <<>>
    /\ pb_uploads = 0
    /\ pb_ret = "None"
    /\ pb_pc = "idle"
    /\ ig_now \in {0, 1, 3}
    /\ ig_deadline = 0
    /\ ig_started = <<>>
    /\ ig_report = "none"
    /\ ig_pc = "enter"

\* deadline = time.time() + timeout
IgEnters ==
    /\ ig_pc = "enter"
    /\ ig_deadline' = ig_now + IG_TIMEOUT
    /\ ig_pc' = "test"
    /\ UNCHANGED <<ig_now, ig_started, ig_report>>
    /\ UNCHANGED <<pb_platform, pb_thumb, pb_creds, pb_attempt, pb_request,
                   pb_failed, pb_waits, pb_uploads, pb_ret, pb_pc>>
    /\ UNCHANGED pubcall_frame

\* The loop test: a poll starts, or the loop ends and TimeoutError is raised.
IgTests ==
    /\ ig_pc = "test"
    /\ IF PollsBeforeDeadline(ig_now, ig_deadline)
       THEN /\ ig_pc' = "poll"
            /\ ig_started' = <<ig_now>>
       ELSE /\ ig_pc' = "timeout"
            /\ UNCHANGED ig_started
    /\ UNCHANGED <<ig_now, ig_deadline, ig_report>>
    /\ UNCHANGED <<pb_platform, pb_thumb, pb_creds, pb_attempt, pb_request,
                   pb_failed, pb_waits, pb_uploads, pb_ret, pb_pc>>
    /\ UNCHANGED pubcall_frame

\* The poll ends after "took" seconds with its report.
IgPollEnds(report, took) ==
    /\ ig_pc = "poll"
    /\ ig_now' = ig_now + took
    /\ ig_pc' = CASE report = "FINISHED" -> "returned"
                  [] report = "ERROR" -> "processing_failed"
                  [] report = "raises" -> "raised"
                  [] OTHER -> "sleep"
    /\ ig_report' = report
    /\ UNCHANGED <<ig_deadline, ig_started>>
    /\ UNCHANGED <<pb_platform, pb_thumb, pb_creds, pb_attempt, pb_request,
                   pb_failed, pb_waits, pb_uploads, pb_ret, pb_pc>>
    /\ UNCHANGED pubcall_frame

\* time.sleep(5)
IgSleeps ==
    /\ ig_pc = "sleep"
    /\ ig_now' = ig_now + IG_POLL_SLEEP
    /\ ig_pc' = "test"
    /\ UNCHANGED <<ig_deadline, ig_started, ig_report>>
    /\ UNCHANGED <<pb_platform, pb_thumb, pb_creds, pb_attempt, pb_request,
                   pb_failed, pb_waits, pb_uploads, pb_ret, pb_pc>>
    /\ UNCHANGED pubcall_frame

IgNext ==
    \/ IgEnters
    \/ IgTests
    \/ \E report \in PollReports, took \in PollTimes : IgPollEnds(report, took)
    \/ IgSleeps

\* The function keeps running until it returns or raises.
SpecIg == IgInit /\ [][IgNext]_vars /\ WF_vars(IgNext)

(***************************************************************************)
(* Claims about the publishers and the pipeline, stated for Spec.          *)
(***************************************************************************)

\* A publisher that entered its retry loop (so its credentials were present)
\* and has seen every attempt so far fail.
AllAttemptsFailed(t) == t.attempt >= 1 /\ t.result = None

\* The publisher has made its last attempt, in vain, and returned None.
Exhausted(t) == t.st = "returned" /\ t.attempt = 3 /\ t.result = None

\* C1: a publisher whose credentials are present and whose every attempt fails
\* with an exception makes exactly 3 attempts and then returns None: it never
\* makes a fourth attempt, never raises to its caller, and returns exactly
\* when the third attempt has failed.
C1_ThreeAttemptsThenNone ==
    \A p \in DOMAIN pub_tasks :
        /\ pub_tasks[p].attempt <= 3
        /\ AllAttemptsFailed(pub_tasks[p]) =>
              /\ pub_tasks[p].st # "raised"
              /\ pub_tasks[p].st = "returned" <=> pub_tasks[p].attempt = 3

\* C1 witness: all four publishers have failed three times and returned None.
C1_Witness ==
    /\ DOMAIN pub_tasks = Platforms
    /\ \A p \in Platforms : Exhausted(pub_tasks[p])

\* The platforms publish_to_all_platforms was called for.
PlatformsAtCall ==
    IF args.platform_filter # ""
    THEN {args.platform_filter}
    ELSE {CONFIGURED_PLATFORMS[i] : i \in 1..Len(CONFIGURED_PLATFORMS)}

\* publish_to_all_platforms has returned.
PublishReturned == gathered["publish"] # -1

\* C2: when publish_to_all_platforms has returned, its map has one entry for
\* every configured platform; a platform whose call raised or exhausted its
\* retries is recorded as None; every platform was run to completion and the
\* result of one that returned is in the map unchanged; and the run never
\* ends with an exception inside the Publish step.
C2_FailedPlatformRecordedNone ==
    /\ pipe_pc = "raised" => started[Len(started)] # "Publish"
    /\ PublishReturned =>
          /\ DOMAIN results = PlatformsAtCall
          /\ \A p \in PlatformsAtCall :
                /\ Done(pub_tasks[p].st)
                /\ (pub_tasks[p].st = "raised" \/ Exhausted(pub_tasks[p]))
                       => results[p] = None
                /\ pub_tasks[p].st = "returned" => results[p] = pub_tasks[p].result
                /\ results[p] \in {None, PostRef(p)}

\* C2 witness: the call has returned with one platform that raised, one that
\* exhausted its retries and one that posted, the post being in the map.
C2_Witness ==
    /\ PublishReturned
    /\ \E p, q, r \in DOMAIN pub_tasks :
          /\ pub_tasks[p].st = "raised" /\ results[p] = None
          /\ Exhausted(pub_tasks[q]) /\ results[q] = None
          /\ pub_tasks[r].result = PostRef(r) /\ results[r] = PostRef(r)

\* s is an initial segment of t.
IsPrefix(s, t) == Len(s) <= Len(t) /\ \A i \in 1..Len(s) : s[i] = t[i]

C4_SingleFailureReachesComplete ==
    /\ (pipe_pc = "raised") => faults > 1
    /\ (pipe_pc = "Complete") => DOMAIN results = PlatformsAtCall

\* The number of futures of each batch.
BatchSize(b) ==
    CASE b = "trends" -> Len(SourceOrder)
      [] b = "images" -> IMAGE_SOURCES * n_queries
      [] b = "publish" -> Cardinality(PlatformsAtCall)

\* C5: the code after a batch has begun only with every member of the batch
\* complete (returned or raised); in the await loop of the publishers every
\* result stored so far comes from a complete task; and a run is past step 1,
\* step 3 or step 10 only with the batch of that step joined.
C5_BatchJoinedBeforeContinuing ==
    /\ \A b \in DOMAIN gathered : gathered[b] # -1 => gathered[b] = BatchSize(b)
    /\ pipe_pc = "await_publish" =>
          \A i \in 1..(await_idx - 1) :
              pub_tasks[TaskOrder(SCHEDULE_platforms)[i]].st \in {"returned", "raised"}
    /\ ("TrendDiscovery" \in {finished[i] : i \in 1..Len(finished)}
            /\ args.override_topic = None) => gathered["trends"] # -1
    /\ "ImageCollection" \in {finished[i] : i \in 1..Len(finished)}
            => gathered["images"] # -1
    /\ ("Publish" \in {finished[i] : i \in 1..Len(finished)} /\ ~args.dry_run)
            => gathered["publish"] # -1

\* C5 witness: a Complete run has gone through all three batches, with a
\* member that raised in each.
C5_Witness ==
    /\ pipe_pc = "Complete"
    /\ \A b \in DOMAIN gathered : gathered[b] = BatchSize(b)
    /\ all_trends["google"] = <<>>
    /\ \E p \in DOMAIN pub_tasks : pub_tasks[p].st = "raised"

(***************************************************************************)
(* Claims about the trend ranker, stated for SpecRank.                     *)
(***************************************************************************)
Min(a, b) == IF a <= b THEN a ELSE b

flat_now == Flatten(all_trends)

\* The comparison keys of the candidates handed to the ranker.
InputKeys == {KeyOf(flat_now[i]) : i \in 1..Len(flat_now)}

\* The first candidate, in input order, that has the given key.
FirstIndexOfKey(key) ==
    CHOOSE i \in 1..Len(flat_now) :
        /\ KeyOf(flat_now[i]) = key
        /\ \A j \in 1..(i - 1) : KeyOf(flat_now[j]) # key

\* The place of a key in the returned list, 0 when it was not returned.
PlaceOfKey(key) ==
    IF \E p \in 1..Len(ranked) : KeyOf(ranked[p]) = key
    THEN CHOOSE p \in 1..Len(ranked) : KeyOf(ranked[p]) = key
    ELSE 0

\* C6: for a non-empty candidate list the ranker returns exactly
\* min(3, number of distinct keys) entries, in descending order of final score,
\* with pairwise distinct keys; each entry is the first candidate with its key
\* (all candidates of one key carry the same final score, so that is its first
\* occurrence in the score-sorted sequence), and no candidate left out scores
\* higher than one returned.
C6_TopThreeUnique ==
    (rank_pc # "input" /\ flat_now # <<>>) =>
        /\ Len(ranked) = Min(3, Cardinality(InputKeys))
        /\ \A p, q \in 1..Len(ranked) :
              p < q => /\ ranked[p].score >= ranked[q].score
                       /\ KeyOf(ranked[p]) # KeyOf(ranked[q])
        /\ \A p \in 1..Len(ranked) :
              ranked[p] = ranked_items[FirstIndexOfKey(KeyOf(ranked[p]))]
        /\ \A i \in 1..Len(ranked_items) :
              PlaceOfKey(KeyOf(ranked_items[i])) = 0 =>
                 \A p \in 1..Len(ranked) :
                    ranked[p].score >= ranked_items[i].score

\* C6 witness: a ranking of more than three distinct keys, cut to three.
C6_Witness ==
    /\ rank_pc = "ranked"
    /\ Cardinality(InputKeys) > 3
    /\ Len(ranked) = 3

\* C7: when every source list is empty the ranker returns the first three
\* configured keywords, in configured order, each with the default score.
C7_EmptyGivesDefaults ==
    (rank_pc # "input" /\ \A src \in DOMAIN all_trends : all_trends[src] = <<>>) =>
        /\ Len(ranked) = Min(3, Len(LOCATION_keywords))
        /\ \A i \in 1..Len(ranked) :
              ranked[i] = [topic |-> LOCATION_keywords[i], score |-> 50]

\* C7 witness: the ranker has returned on all-empty source lists.
C7_Witness ==
    /\ rank_pc = "ranked"
    /\ \A src \in DOMAIN all_trends : all_trends[src] = <<>>
    /\ Len(ranked) = 3

\* The bonus the claim describes: over the words longer than 4 characters of
\* the candidate's own (lower-cased) topic, the sum of each word's frequency
\* across all candidates.
ClaimedBonus(i) ==
    LET ws == SelectSeq(Split(Lower(Get(flat_now[i], "topic", <<>>))),
                        LAMBDA w : Len(w) > 4)
        counter == WordCounter(flat_now)
    IN  SumSeq([j \in 1..Len(ws) |-> CountOf(counter, ws[j])])

\* C8 (as claimed): every candidate's frequency bonus is the sum, over the
\* words longer than 4 characters of its own topic, of the word's frequency
\* across all candidates.
C8_BonusOverTopicWords ==
    (rank_pc # "input" /\ flat_now # <<>>) =>
        \A i \in 1..Len(flat_now) : bonuses[i] = ClaimedBonus(i)

\* C8, the part of the claim the code satisfies: the same statement for the
\* candidates whose topic is at most 80 characters long.
C8_BonusOverShortTopics ==
    (rank_pc # "input" /\ flat_now # <<>>) =>
        \A i \in 1..Len(flat_now) :
            Len(Get(flat_now[i], "topic", <<>>)) <= 80 =>
                bonuses[i] = ClaimedBonus(i)

\* The raw score of a candidate: its score field, 50 when it has none.
RawScore(i) == Get(flat_now[i], "score", 50)

\* The source list a candidate of the flattened input came from.
RECURSIVE SourceIndexFrom(_, _)
SourceIndexFrom(i, k) ==
    IF i <= Len(all_trends[SourceOrder[k]])
    THEN k
    ELSE SourceIndexFrom(i - Len(all_trends[SourceOrder[k]]), k + 1)

SourceIndex(i) == SourceIndexFrom(i, 1)

\* Some word longer than 4 characters of candidate i occurs in a topic of
\* another source.
SharesWordAcrossSources(i) ==
    \E j \in 1..Len(flat_now) :
        /\ SourceIndex(j) # SourceIndex(i)
        /\ \E a \in 1..Len(CountedWords(flat_now[i])) :
           \E b \in 1..Len(CountedWords(flat_now[j])) :
               CountedWords(flat_now[i])[a] = CountedWords(flat_now[j])[b]

\* Candidate i's topic comes from one source only.
SingleSourceOnly(i) ==
    \A j \in 1..Len(flat_now) :
        KeyOf(flat_now[j]) = KeyOf(flat_now[i]) => SourceIndex(j) = SourceIndex(i)

\* Candidate a's topic is placed ahead of candidate b's in the returned list
\* (or neither is returned).
RankedAhead(a, b) ==
    LET pa == PlaceOfKey(KeyOf(flat_now[a]))
        pb == PlaceOfKey(KeyOf(flat_now[b]))
    IN  pb # 0 => (pa # 0 /\ pa < pb)

\* The input of the end-to-end scenario.
ScenarioInput ==
    /\ all_trends["google"] = <<Cand(T_TunisBeaches, 80, "google_trends")>>
    /\ all_trends["reddit"] = <<Cand(T_BeachesAmazing, 60, "reddit/travel")>>
    /\ \A src \in {"youtube", "news", "duckduckgo"} : all_trends[src] = <<>>

\* C9 (as claimed): on the scenario input the top entry is "Tunis beaches",
\* and in general a candidate with the higher raw score whose long words also
\* occur in another source's topic is ranked ahead of any single-source-only
\* topic with a lower raw score.
C9_HigherRawScoreWins ==
    rank_pc # "input" =>
        /\ ScenarioInput => ranked[1].topic = T_TunisBeaches
        /\ \A a, b \in 1..Len(flat_now) :
              ( /\ RawScore(a) > RawScore(b)
                /\ SharesWordAcrossSources(a)
                /\ SingleSourceOnly(b)
                /\ KeyOf(flat_now[a]) # KeyOf(flat_now[b]) ) => RankedAhead(a, b)

\* C9 (amended): on the scenario input the top entry is "Tunis beaches", and
\* in general a candidate with the higher raw score is ranked ahead of any
\* topic that occurs once among all candidates, has a lower raw score and a
\* frequency bonus no larger than the candidate's own (raw scores being
\* non-negative).
C9_HigherRawScoreAndBonusWins ==
    rank_pc # "input" =>
        /\ ScenarioInput => ranked[1].topic = T_TunisBeaches
        /\ \A a, b \in 1..Len(flat_now) :
              ( /\ RawScore(a) > RawScore(b)
                /\ \A j \in 1..Len(flat_now) :
                      KeyOf(flat_now[j]) = KeyOf(flat_now[b]) => j = b
                /\ bonuses[b] <= bonuses[a]
                /\ \A j \in 1..Len(flat_now) : RawScore(j) >= 0 ) => RankedAhead(a, b)

\* C9 witness: the scenario input has been ranked, "Tunis beaches" (80 + 4)
\* ahead of "Tunis beaches are amazing" (60 + 5).
C9_Witness ==
    /\ rank_pc = "ranked"
    /\ ScenarioInput
    /\ Len(ranked) = 2
    /\ ranked[1].topic = T_TunisBeaches /\ ranked[1].score = 84
    /\ ranked[2].topic = T_BeachesAmazing /\ ranked[2].score = 65

C11_DedupIdempotent ==
    (dd_pc = "twice" /\ ~dd_touched) => dd_twice = dd_once

\* C11 witness: a second call has returned on a list from which the first call
\* dropped a duplicate and in which it kept a file that cannot be hashed.
C11_Witness ==
    /\ dd_pc = "twice" /\ ~dd_touched
    /\ Len(dd_once) < Len(dd_paths)
    /\ \E i \in 1..Len(dd_once) : HashFails(dd_fs, dd_once[i])
    /\ Len(dd_once) >= 2

\* The indices of paths that deduplicate_files is to keep: those whose
\* hashing fails, and those with no earlier hashable element of the same hash.
KeptIndices(fs, paths) ==
    {i \in 1..Len(paths) :
        \/ HashFails(fs, paths[i])
        \/ \A j \in 1..(i - 1) :
              HashFails(fs, paths[j]) \/ file_hash(fs, paths[j]) # file_hash(fs, paths[i])}

\* The subsequence of paths at the given indices, in the original order.
SubsequenceAt(paths, idx) ==
    LET nth(k) == CHOOSE i \in idx : Cardinality({j \in idx : j < i}) = k - 1
    IN  [k \in 1..Cardinality(idx) |-> paths[nth(k)]]

\* C12: deduplicate_files(L) is the subsequence of L that keeps, in the
\* original order, the first occurrence of each distinct content hash and
\* every element whose hashing fails, and drops exactly the later elements
\* whose hash was already seen.
C12_FirstOccurrencesInOrder ==
    (dd_pc # "input" /\ ~dd_touched) =>
        dd_once = SubsequenceAt(dd_paths, KeptIndices(dd_fs, dd_paths))

\* C12 witness: the list [A, B, A, C] with three distinct contents has been
\* deduplicated to [A, B, C].
C12_Witness ==
    /\ dd_pc = "once"
    /\ dd_paths = <<"a.jpg", "b.jpg", "a.jpg", "c.jpg">>
    /\ Cardinality({dd_fs[p] : p \in FilePaths}) = 3
    /\ \A p \in FilePaths : ~HashFails(dd_fs, p)
    /\ dd_once = <<"a.jpg", "b.jpg", "c.jpg">>

(***************************************************************************)
(* Claims about the scheduled-post queue, stated for SpecQueue.            *)
(***************************************************************************)

\* After schedule_post returned, the queue reloaded from the file holds,
\* under the id returned, a record with the platform and content of the
\* call and the status "pending".
SchedulePostPersists ==
    (q_call.op = "schedule_post" /\ ~q_ret.raised /\ q_file # FileDamaged) =>
        LET queue == load_queue(q_file)
            e == q_ret.value
        IN  /\ e = q_call.platform \o "_" \o q_call.time.stamp
            /\ e \in DOMAIN queue
            /\ queue[e].platform = PyStr(q_call.platform)
            /\ queue[e].content = q_call.content
            /\ queue[e].status = PyStr("pending")

\* A call of publish_to_all_platforms with a schedule_time returns
\* "scheduled:<id>" for every configured platform.
ScheduledForEveryPlatform ==
    q_call.op = "publish_to_all_platforms" =>
        /\ ~q_ret.raised
        /\ DOMAIN q_ret.value =
               {SCHEDULE_platforms[i] : i \in 1..Len(SCHEDULE_platforms)}
        /\ \A p \in DOMAIN q_ret.value :
               q_ret.value[p] = "scheduled:" \o EntryId(p, q_call.time)

\* C13: a post scheduled with schedule_post is found again, unchanged and
\* pending, under '<platform>_<timestamp>' when the queue is reloaded, and
\* publish_to_all_platforms with a schedule_time returns 'scheduled:<id>'
\* for every configured platform.
C13_ScheduledPostsPersistAndReport ==
    SchedulePostPersists /\ ScheduledForEveryPlatform

(***************************************************************************)
(* Claims about the performance table, stated for SpecPerf.                *)
(***************************************************************************)

\* The rows of the table with the given platform, post id and date.
RowsOf(rows, platform, post_id, date) ==
    {r \in rows : UniqueKey(r) = <<platform, post_id, date>>}

\* C14: the performance table never holds two rows with the same platform,
\* post id and date; after a store_metrics call that stored, the table holds
\* exactly one row for the call's platform, post id and day, carrying the
\* new metrics, and the rows of every other (platform, post id, date) are
\* the rows that were there before the call.
C14_OneRowPerPostAndDay ==
    /\ \A r1 \in perf_rows, r2 \in perf_rows :
           UniqueKey(r1) = UniqueKey(r2) => r1 = r2
    /\ perf_call.returned =>
           LET mine == RowsOf(perf_rows, perf_call.platform,
                              perf_call.post_id, perf_call.date)
               was == RowsOf(perf_prev, perf_call.platform,
                             perf_call.post_id, perf_call.date)
           IN  /\ Cardinality(mine) = 1
               /\ \A r \in mine :
                      r.metrics_json = MetricsJson(perf_call.metrics)
               /\ perf_rows \ mine = perf_prev \ was

\* A second store for the same post on the same day, with other metrics,
\* while the table holds a row of another post.
C14_Witness ==
    /\ perf_call.returned
    /\ \E r \in perf_prev :
           /\ UniqueKey(r) = <<perf_call.platform, perf_call.post_id,
                                perf_call.date>>
           /\ r.metrics_json # MetricsJson(perf_call.metrics)
    /\ \E r \in perf_rows : r.post_id # perf_call.post_id
    /\ Cardinality(perf_rows) = Cardinality(perf_prev)

(***************************************************************************)
(* Claims about the content log, the preview prompt and dry runs, stated   *)
(* for Spec.                                                               *)
(***************************************************************************)

\* C15 (as claimed): the rows of earlier runs stay as they are, and a run
\* that has passed the analytics step has added exactly one row.
C15_ExactlyOneRowPerRun ==
    /\ IsPrefix(<<EarlierRow>>, content_rows)
    /\ content_logged # "no" => Len(content_rows) = 2

\* C15 (amended): the rows of earlier runs stay as they are; a run adds
\* nothing before its analytics step; there it adds one row, holding its
\* result map, when the database write goes through, and nothing when the
\* write fails; a run that is Complete has passed the analytics step, in a
\* dry run as in a real one.
C15_OneRowWhenWriteSucceeds ==
    /\ IsPrefix(<<EarlierRow>>, content_rows)
    /\ content_logged = "no" => content_rows = <<EarlierRow>>
    /\ content_logged = "row" =>
           content_rows = <<EarlierRow, ContentRow(results)>>
    /\ content_logged = "failed" => content_rows = <<EarlierRow>>
    /\ pipe_pc = "Complete" => content_logged # "no"
    /\ content_logged # "no" => pipe_pc \in {"Complete", "raised"}

\* A dry run is Complete and has added its row.
C15_Witness ==
    /\ pipe_pc = "Complete"
    /\ args.dry_run
    /\ content_logged = "row"
    /\ Len(content_rows) = 2

\* Some publisher has made an upload attempt.
UploadStarted == \E p \in DOMAIN pub_tasks : pub_tasks[p].attempt >= 1

\* C16 (as claimed): with --preview and without --dry-run no upload attempt
\* is made before the confirmation prompt is answered, and none at all when
\* the answer is not y.
C16_NoUploadBeforeConfirmation ==
    (args.preview /\ ~args.dry_run) =>
        /\ main_pc = "pipeline" => ~UploadStarted
        /\ main_pc = "cancelled" => ~UploadStarted

\* C17: in a dry run no publisher call is ever handed to the executor and
\* config.SCHEDULE["platforms"] is left alone; the result map is built only
\* after steps 1 to 8 have finished and maps exactly the selected platforms
\* (the filter alone, or all configured ones) to "dry-run"; a dry run that
\* is Complete has gone through all ten steps.
C17_DryRunPublishesNothing ==
    args.dry_run =>
        /\ pub_tasks = NoTasks
        /\ ~UploadStarted
        /\ SCHEDULE_platforms = CONFIGURED_PLATFORMS
        /\ results # NoTasks =>
               /\ IsPrefix(SubSeq(StepOrder, 1, 8), finished)
               /\ results = [p \in PlatformsAtCall |-> DRY_RUN]
        /\ pipe_pc \in {"log", "Complete"} => results # NoTasks
        /\ pipe_pc = "Complete" => finished = StepOrder

\* A dry run with --platform telegram is Complete.
C17_Witness ==
    /\ args.dry_run
    /\ args.platform_filter = "telegram"
    /\ pipe_pc = "Complete"
    /\ results = [p \in {"telegram"} |-> DRY_RUN]

(***************************************************************************)
(* Claims about collect_all_images, stated for SpecImages.                 *)
(***************************************************************************)

\* The number of different entries of a list.
Distinct(xs) == Cardinality({xs[i] : i \in 1..Len(xs)})

EndedWithoutCredential(c) ==
    c \in DOMAIN cn_done /\ c \in NeedsCredential /\ c \notin cn_creds

\* None for a platform publisher, an empty list for a search.
EmptyValue(c) == IF c \in ConnectorSet("publish") THEN PyNone ELSE PyList(<<>>)

\* The connectors of the step that are not left out for want of a credential.
SequenceWithout(connectors, left_out) ==
    SelectSeq(connectors, LAMBDA c : c \notin left_out)

\* C19 (as claimed): every connector that ended without its credential has
\* made no external call, returned its empty value and not raised.
C19_NoCallWithoutCredential ==
    \A c \in ConnectorSet(cn_step) :
        EndedWithoutCredential(c) =>
            /\ cn_done[c].calls = <<>>
            /\ cn_done[c].value = EmptyValue(c)
            /\ ~cn_done[c].raised

\* C19 (amended): no connector raises for want of a credential; every one
\* but get_youtube_trends then makes no external call and returns its empty
\* value; get_youtube_trends makes one DuckDuckGo search instead and returns
\* the list that gives; and after the join the step has a result from every
\* connector, the same as if the connectors left without a credential had
\* not been there (None in the map for a publisher).
C19_ShortCircuitExceptYoutubeTrends ==
    /\ \A c \in ConnectorSet(cn_step) :
           EndedWithoutCredential(c) =>
               /\ ~cn_done[c].raised
               /\ IF c = "get_youtube_trends"
                  THEN /\ cn_done[c].calls = <<"duckduckgo">>
                       /\ cn_done[c].value[1] = "list"
                  ELSE /\ cn_done[c].calls = <<>>
                       /\ cn_done[c].value = EmptyValue(c)
    /\ cn_pc = "joined" =>
           LET silent == {c \in ConnectorSet(cn_step) \ {"get_youtube_trends"} :
                             EndedWithoutCredential(c)}
           IN  /\ DOMAIN cn_done = ConnectorSet(cn_step)
               /\ IF cn_step = "publish"
                  THEN /\ DOMAIN cn_out = ConnectorSet(cn_step)
                       /\ \A c \in silent : cn_out[c] = PyNone
                  ELSE cn_out = StepOutput(cn_step, cn_done,
                           SequenceWithout(StepConnectors(cn_step), silent))

\* The image step has joined with the Unsplash key missing and a hit from
\* Pexels.
C19_Witness ==
    /\ cn_pc = "joined"
    /\ cn_step = "images"
    /\ "search_unsplash" \notin cn_creds
    /\ "search_pexels" \in cn_creds
    /\ cn_done["search_unsplash"].calls = <<>>
    /\ cn_done["search_pexels"].value # PyList(<<>>)
    /\ Len(cn_out) >= 1

(***************************************************************************)
(* Claims about generate_video_script, stated for SpecScript.              *)
(***************************************************************************)

\* The script has every required key, strings where strings are asked for
\* and twelve transition texts.
WellShaped(script) ==
    /\ RequiredKeys \subseteq DOMAIN script
    /\ \A k \in RequiredKeys \cap DOMAIN script :
           script[k][1] = IF k \in ListKeys THEN "list" ELSE "str"
    /\ "transition_texts" \in DOMAIN script
           => Len(script["transition_texts"][2]) = TRANSITION_TEXTS

\* The API answered with JSON text of the shape asked for.
AnsweredWellShaped(api) ==
    /\ api.kind = "text"
    /\ Unfenced(api).json = "object"
    /\ WellShaped(api.script)

\* C20 (as claimed): the call returns, the script returned has all required
\* keys with twelve transition texts, and it is the fallback script whenever
\* the API is unavailable, raises or answers with anything but structured
\* data of that shape.
C20_AlwaysACompleteScript ==
    sc_pc # "call" =>
        /\ sc_pc = "returned"
        /\ WellShaped(sc_ret)
        /\ ~AnsweredWellShaped(sc_api)
               => sc_ret = fallback_script(sc_topic, LOCATION_name, sc_style)

(***************************************************************************)
(* Claims about scheduled mode, stated for SpecSched.                      *)
(***************************************************************************)

\* C21 (as claimed): once an interrupt has arrived and the program has
\* ended, the scheduler has been shut down and no pipeline job that was
\* running has been aborted: it ran to completion.
C21_InterruptStopsSchedulerAndSparesJobs ==
    (sd_interrupted /\ sd_loop = "closed") =>
        /\ ~sd_running
        /\ sd_task # "cancelled"

\* C29 (as claimed): every schedule_analytics call succeeds and the job ids
\* of different runs differ, also for runs in the same second.
C29_EveryRunRegistersItsOwnJob ==
    \A i \in 1..Len(sd_calls) :
        /\ sd_calls[i].outcome # "raised"
        /\ \A j \in 1..Len(sd_calls) :
               i # j => sd_calls[i].job_id # sd_calls[j].job_id

(***************************************************************************)
(* Claims about one publisher call, stated for SpecPub and SpecIg.         *)
(***************************************************************************)

\* C22: the sleeps of a publisher call are 5 s after the first failed
\* attempt and 10 s after the second, none after the third; a successful
\* attempt ends the call with no sleep and no further attempt, so there is
\* one sleep for each failed attempt before it.
C22_LinearBackoff ==
    /\ pb_waits = SubSeq(<<5, 10>>, 1, Min(pb_failed, 2))
    /\ pb_failed <= 3
    /\ pb_ret = "url" => (pb_pc = "returned" /\ Len(pb_waits) = pb_failed)
    /\ pb_pc = "attempt" => pb_attempt = pb_failed + 1

\* Three attempts have failed: two sleeps, 5 s and 10 s, and None returned.
C22_Witness ==
    /\ pb_pc = "returned"
    /\ pb_failed = 3
    /\ pb_waits = <<5, 10>>
    /\ pb_ret = "None"

\* What the state says about the polls of _wait_for_ig_processing: a poll
\* starts only before the deadline, FINISHED ends the wait with a return,
\* ERROR with the processing failure, and TimeoutError is raised only with
\* the deadline reached and the last poll, if any, still in progress.
IgPollsInTime ==
    /\ ig_started # <<>> => ig_started[1] < ig_deadline
    /\ ig_report = "FINISHED" => ig_pc = "returned"
    /\ ig_pc = "returned" => ig_report = "FINISHED"
    /\ ig_report = "ERROR" => ig_pc = "processing_failed"
    /\ ig_pc = "processing_failed" => ig_report = "ERROR"
    /\ ig_pc = "timeout" =>
           /\ ig_now >= ig_deadline
           /\ ig_report \in {"IN_PROGRESS", ""}

\* C25: _wait_for_ig_processing always ends: with a return as soon as a poll
\* reports FINISHED, with the processing failure as soon as one reports
\* ERROR, and otherwise with TimeoutError, no poll starting once the
\* deadline has passed.
C25_WaitAlwaysEnds ==
    /\ []IgPollsInTime
    /\ <>(ig_pc \in IgEnded)

\* The container stayed in progress up to the deadline, 120 s after the
\* call, and TimeoutError was raised.
C25_Witness ==
    /\ ig_pc = "timeout"
    /\ ig_report = "IN_PROGRESS"
    /\ ig_deadline = ig_started[1] + 5
    /\ ig_now = ig_deadline

\* C26 (as claimed): one publisher call has the platform accept the video
\* at most once, whatever fails afterwards in the same attempt.
C26_AtMostOneAcceptedUpload ==
    pb_uploads <= 1

(***************************************************************************)
(* Claims about the scores of the ranker, stated for SpecScores.           *)
(***************************************************************************)

\* What a candidate contributes according to the claim: its score, or 50
\* when the score field is missing or empty.
ClaimedRawScore(item) ==
    IF "score" \in DOMAIN item /\ item.score # NoneScore
    THEN item.score
    ELSE 50

C27_AtMostTwoSearches ==
    /\ Len(mu_queries) <= 2
    /\ Len(mu_queries) = 2 => mu_queries[2] = MusicQuery("ambient", "background")
    /\ mu_pc = "returned" => mu_ret \in {"downloaded", "generated"}

(***************************************************************************)
(* Claims about the text overlays, stated for SpecOverlay.                 *)
(***************************************************************************)

\* C28 (as claimed): when step 8 builds the slideshow, images_with_text
\* holds one entry for every image of step 3, in the order of step 3, so
\* the slideshow has images_per_video clips whatever transition_texts the
\* script carries.
C28_OneOverlayPerImage ==
    ov_pc = "step8" =>
        /\ Len(ov_out) = IMAGES_PER_VIDEO
        /\ ov_clips = IMAGES_PER_VIDEO
        /\ \A i \in 1..Len(ov_out) : ov_out[i][2] = CollectedImages[i]

(***************************************************************************)
(* Claims about the shared configuration, stated for Spec.                 *)
(***************************************************************************)

\* C30 (as claimed): when run_full_pipeline has returned or raised,
\* SCHEDULE["platforms"] and LOCATION["language"] hold the values they had
\* when it was called.
C30_ConfigurationAsFound ==
    pipe_pc \in {"Complete", "raised"} =>
        /\ SCHEDULE_platforms = CONFIGURED_PLATFORMS
        /\ LOCATION_language = "en"

====
